---- MODULE Spec2Model ----
(***************************************************************************)
(* State-machine model of the Auralink backend: the user, entity and       *)
(* insight collections, and the HTTP handlers of routes/auth.js,           *)
(* routes/entities.js, routes/insights.js and routes/analytics.js.         *)
(*                                                                         *)
(* A stored document is a function from the names of the fields it has to  *)
(* their values, so an absent optional field is absent from the DOMAIN.    *)
(* A request body is a function from its keys to JSON values, each JSON    *)
(* value tagged with its type: [t |-> "string", v |-> "abc"].              *)
(* A response is [status |-> code, body |-> the JSON envelope].            *)
(***************************************************************************)
EXTENDS Integers, Sequences, FiniteSets, TLC

VARIABLES
    users,      \* the User collection: a set of documents
    entities,   \* the Entity collection: a set of documents
    insights,   \* the Insight collection: a set of documents
    nextId,     \* the next ObjectId the driver generates
    now,        \* Date.now(), in hours since 1970-01-01T00:00Z
    tz,         \* the server's local time minus UTC, in hours
    procs,      \* the auth requests in flight: slot -> handler position and locals
    tokens,     \* the subjects for which generateTokens has signed a credential
    secrets,    \* history: [id, password] of every account signup has created
    request,    \* the request the latest step answered, NoRequest if none
    response,   \* the answer it got
    authorization   \* its Authorization header, NoHeader where the step models
                    \* a request from after authenticateToken has let it through

vars == <<users, entities, insights, nextId, now, tz, procs, tokens, secrets, request, response,
         authorization>>

(***************************************************************************)
(* Bounds of the model                                                     *)
(***************************************************************************)
MaxCallers == 2     \* credential subjects that call the entity endpoints
MaxIds == 2         \* ObjectIds generated in one behaviour
MaxTicks == 1       \* clock advances in one behaviour
MaxProcs == 2       \* auth requests in flight at once
MaxSeeded == 16     \* entities of one owner in a collection stored beforehand
MaxOthers == 2      \* entities of another owner in such a collection

\* ObjectIds are 24-digit hex strings; the model writes them "o1", "o2", ...
\* and the subjects of the credentials used on the entity endpoints "u1", ...
IdPool == <<"o1", "o2", "o3", "o4", "o5", "o6">>
SubPool == <<"u1", "u2", "u3", "u4">>
ObjectIds == {IdPool[i] : i \in 1..MaxIds}
Callers == {SubPool[i] : i \in 1..MaxCallers}
Slots == 1..MaxProcs

\* 2024-01-31T12:00Z, so that one Tick of a day crosses into February
StartHour == (19753 * 24) + 12
HoursPerTick == 2 * 12

(***************************************************************************)
(* JSON values and responses                                               *)
(***************************************************************************)
JStr(s) == [t |-> "string", v |-> s]
JArr(a) == [t |-> "array", v |-> a]
JObj(o) == [t |-> "object", v |-> o]

\* res.status(code).json({success: false, error, statusCode})
ErrorResponse(code, message) ==
    [status |-> code,
     body |-> [success |-> FALSE, error |-> message, statusCode |-> code]]

\* res.status(code).json({success: true, data})
DataResponse(code, data) ==
    [status |-> code, body |-> [success |-> TRUE, data |-> data]]

\* res.status(code).json({success: true, message})
MessageResponse(code, message) ==
    [status |-> code, body |-> [success |-> TRUE, message |-> message]]

\* middleware/errorHandler.js: statusCode = err.statusCode || 500,
\* message = err.message || "Internal Server Error"
errorHandler(err) ==
    LET statusCode == IF "statusCode" \in DOMAIN err THEN err.statusCode ELSE 500
        message == IF "message" \in DOMAIN err THEN err.message
                   ELSE <<"Internal Server Error">>
    IN  ErrorResponse(statusCode, message)

NoRequest == [op |-> "none"]
NoResponse == [status |-> 0, body |-> [success |-> FALSE]]
NoHeader == [present |-> FALSE]

(***************************************************************************)
(* Joi object schemas.  A schema is the sequence of its keys' rules, in    *)
(* declaration order; validation stops at the first error (abortEarly).    *)
(***************************************************************************)
Rule(key, kind, required, valid, min) ==
    [key |-> key, kind |-> kind, required |-> required, valid |-> valid, min |-> min]

\* the strings of the model that are e-mail addresses and URIs
EmailStrings == {"a@x.io", "A@x.io", "b@x.io"}
UriStrings == {"https://x.io/a.png"}
IsEmail(s) == s \in EmailStrings
IsUri(s) == s \in UriStrings

\* the error of one key of the schema against the body, <<>> when it passes
KeyError(rule, body) ==
    IF rule.key \notin DOMAIN body
    THEN IF rule.required THEN <<rule.key, "is required">> ELSE <<>>
    ELSE LET val == body[rule.key] IN
         IF rule.kind = "array"
         THEN IF val.t # "array" THEN <<rule.key, "must be an array">>
              ELSE IF \E i \in 1..Len(val.v) : val.v[i].t # "string"
                   THEN <<rule.key, "must be a string">>
              ELSE IF \E i \in 1..Len(val.v) : val.v[i].v = ""
                   THEN <<rule.key, "is not allowed to be empty">>
              ELSE <<>>
         ELSE IF val.t # "string" THEN <<rule.key, "must be a string">>
              ELSE IF val.v = "" THEN <<rule.key, "is not allowed to be empty">>
              ELSE IF rule.valid # {} /\ val.v \notin rule.valid
                   THEN <<rule.key, "must be one of the valid values">>
              ELSE IF Len(val.v) < rule.min
                   THEN <<rule.key, "length must be at least min characters long">>
              ELSE IF rule.kind = "email" /\ ~IsEmail(val.v)
                   THEN <<rule.key, "must be a valid email">>
              ELSE IF rule.kind = "uri" /\ ~IsUri(val.v)
                   THEN <<rule.key, "must be a valid uri">>
              ELSE <<>>

SchemaKeys(schema) == {schema[i].key : i \in 1..Len(schema)}

\* schema.validate(body).error: the first failing key in schema order, else
\* the first key of the body the schema does not know, else <<>>
JoiError(schema, body) ==
    LET failing == {i \in 1..Len(schema) : KeyError(schema[i], body) # <<>>}
        unknown == DOMAIN body \ SchemaKeys(schema)
    IN  IF failing # {}
        THEN KeyError(schema[CHOOSE i \in failing : \A j \in failing : i <= j], body)
        ELSE IF unknown # {}
        THEN <<CHOOSE k \in unknown : TRUE, "is not allowed">>
        ELSE <<>>

\* schema.validate(body).value: the validated keys with their plain values
JoiValue(body) ==
    [k \in DOMAIN body |->
        IF body[k].t = "array"
        THEN [i \in 1..Len(body[k].v) |-> body[k].v[i].v]
        ELSE body[k].v]

(***************************************************************************)
(* Documents                                                               *)
(***************************************************************************)
\* {...doc, ...upd}: upd's fields over doc's
Merge(doc, upd) ==
    [k \in DOMAIN doc \cup DOMAIN upd |-> IF k \in DOMAIN upd THEN upd[k] ELSE doc[k]]

\* a path of a filter matches a document that has the field with that value
Matches(doc, filter) ==
    \A k \in DOMAIN filter : k \in DOMAIN doc /\ doc[k] = filter[k]

Find(coll, filter) == {d \in coll : Matches(d, filter)}

\* a route parameter :id is a string; Mongoose casts it to an ObjectId, and
\* the cast throws CastError when the string is no ObjectId
SeedId(i) == "e" \o ToString(i)
OtherId(j) == "f" \o ToString(j)

IsObjectId(s) ==
    \/ \E i \in 1..Len(IdPool) : s = IdPool[i]
    \/ \E i \in 1..Len(SubPool) : s = SubPool[i]
    \/ \E i \in 1..(MaxSeeded + 1) : s = SeedId(i)
    \/ \E j \in 1..(MaxOthers + 1) : s = OtherId(j)
MalformedId == "not-an-id"
IdParams == ObjectIds \cup {MalformedId}

CastError == [name |-> "CastError", message |-> <<"Cast to ObjectId failed">>]

(***************************************************************************)
(* Entity model and routes/entities.js                                     *)
(***************************************************************************)
\* new Entity({...value, userId}) under models/Entity.js: the schema's
\* defaults fill what the body leaves out; timestamps: true stamps both dates
NewEntityDefaultsWin(value, sub, id, t) ==
    Merge(Merge(value, [userId |-> sub]),
          [_id |-> id,
           userId |-> sub,
           status |-> "active",
           priority |-> "medium",
           tags |-> <<>>,
           metrics |-> [views |-> 0, engagement |-> 0, score |-> 0],
           createdAt |-> t,
           updatedAt |-> t,
           __v |-> 0])

NewEntity(value, sub, id, t) ==
    Merge([_id |-> id,
           userId |-> sub,
           status |-> "active",
           priority |-> "medium",
           tags |-> <<>>,
           metrics |-> [views |-> 0, engagement |-> 0, score |-> 0],
           createdAt |-> t,
           updatedAt |-> t,
           __v |-> 0],
          Merge(value, [userId |-> sub]))

createSchemaWithOwner ==
    << Rule("title", "string", TRUE, {}, 0),
       Rule("description", "string", FALSE, {}, 0),
       Rule("category", "string", TRUE, {}, 0),
       Rule("priority", "string", FALSE, {"low", "medium", "high"}, 0),
       Rule("tags", "array", FALSE, {}, 0),
       Rule("userId", "string", FALSE, {}, 0) >>

createSchema ==
    << Rule("title", "string", TRUE, {}, 0),
       Rule("description", "string", FALSE, {}, 0),
       Rule("category", "string", TRUE, {}, 0),
       Rule("priority", "string", FALSE, {"low", "medium", "high"}, 0),
       Rule("tags", "array", FALSE, {}, 0) >>

updateSchemaWithCategory ==
    << Rule("title", "string", FALSE, {}, 0),
       Rule("description", "string", FALSE, {}, 0),
       Rule("category", "string", FALSE, {}, 0),
       Rule("status", "string", FALSE, {"active", "inactive"}, 0),
       Rule("priority", "string", FALSE, {"low", "medium", "high"}, 0),
       Rule("tags", "array", FALSE, {}, 0) >>

updateSchema ==
    << Rule("title", "string", FALSE, {}, 0),
       Rule("description", "string", FALSE, {}, 0),
       Rule("status", "string", FALSE, {"active", "inactive"}, 0),
       Rule("priority", "string", FALSE, {"low", "medium", "high"}, 0),
       Rule("tags", "array", FALSE, {}, 0) >>

EntityNotFound == ErrorResponse(404, <<"Entity not found">>)

\* the filters of GET, PUT and DELETE /:id
GetOneFilter(id, sub) == [_id |-> id, userId |-> sub]
UpdateFilterById(id, sub) == [_id |-> id]
UpdateFilter(id, sub) == [_id |-> id, userId |-> sub]
DeleteFilterByOwner(id, sub) == [userId |-> sub]
DeleteFilter(id, sub) == [_id |-> id, userId |-> sub]

\* the request bodies the model sends to POST /
CreateBodies ==
    { [title |-> JStr("t1"), category |-> JStr("c1")],
      [title |-> JStr("t2"), category |-> JStr("c2"), priority |-> JStr("high"),
       tags |-> JArr(<<JStr("x")>>), description |-> JStr("d1")],
      [title |-> JStr("t1")],
      [title |-> JStr("t1"), category |-> JStr("c1"), userId |-> JStr("u2")],
      [title |-> JStr("t1"), category |-> JStr("c1"), priority |-> JStr("urgent")] }

\* the request bodies the model sends to PUT /:id
UpdateBodies ==
    { [status |-> JStr("inactive")],
      [title |-> JStr("t2"), tags |-> JArr(<<JStr("y")>>)],
      [k \in {} |-> JStr("")],
      [category |-> JStr("c2")],
      [userId |-> JStr("u2")],
      [metrics |-> JObj([views |-> "9"])],
      [priority |-> JStr("urgent")],
      [status |-> JStr("archived")] }

Answer(req, res) ==
    /\ request' = req
    /\ response' = res

\* a step that answers no request: a handler suspended at an await, the clock
Silent ==
    /\ request' = NoRequest
    /\ response' = NoResponse

\* POST /api/entities
Create(sub, body) ==
    LET req == [op |-> "create", sub |-> sub, body |-> body]
        error == JoiError(createSchema, body)
    IN  /\ UNCHANGED <<users, insights, now, tz, procs, tokens, secrets>>
        /\ IF error # <<>>
           THEN /\ Answer(req, ErrorResponse(400, error))
                /\ UNCHANGED <<entities, nextId>>
           ELSE /\ nextId <= MaxIds
                /\ LET entity == NewEntity(JoiValue(body), sub, IdPool[nextId], now)
                   IN  /\ entities' = entities \cup {entity}
                       /\ nextId' = nextId + 1
                       /\ Answer(req, DataResponse(201, entity))

\* GET /api/entities/:id
GetOne(sub, id) ==
    LET req == [op |-> "getOne", sub |-> sub, id |-> id]
        found == Find(entities, GetOneFilter(id, sub))
    IN  /\ UNCHANGED <<users, entities, insights, nextId, now, tz, procs, tokens, secrets>>
        /\ IF ~IsObjectId(id)
           THEN Answer(req, errorHandler(CastError))
           ELSE IF found = {}
           THEN Answer(req, EntityNotFound)
           ELSE Answer(req, DataResponse(200, CHOOSE e \in found : TRUE))

\* {...value, updatedAt: new Date()}: the update document, built when the
\* handler calls the store
UpdateDocument(value, t) == Merge(value, [updatedAt |-> t])

\* the update document applied to a stored document: its paths are set, the
\* other paths of the document stay
UpdatedReplace(old, update) == Merge([k \in {"_id", "userId"} |-> old[k]], update)

Updated(old, update) == Merge(old, update)

\* Entity.findOneAndUpdate(filter, update, {new: true}), one atomic operation
\* of the store: the document returned (none or one) and the collection after
FindOneAndUpdateUpsert(coll, filter, update) ==
    LET found == Find(coll, filter)
        old == CHOOSE e \in found : TRUE
    IN  IF found = {}
        THEN [found |-> {Merge(filter, update)}, coll |-> coll \cup {Merge(filter, update)}]
        ELSE [found |-> {Updated(old, update)},
              coll |-> (coll \ {old}) \cup {Updated(old, update)}]

FindOneAndUpdate(coll, filter, update) ==
    LET found == Find(coll, filter)
        old == CHOOSE e \in found : TRUE
    IN  IF found = {}
        THEN [found |-> {}, coll |-> coll]
        ELSE [found |-> {Updated(old, update)},
              coll |-> (coll \ {old}) \cup {Updated(old, update)}]

\* PUT /api/entities/:id from await Entity.findOneAndUpdate on
UpdateStore(req, update) ==
    LET r == FindOneAndUpdate(entities, UpdateFilter(req.id, req.sub), update)
    IN  IF ~IsObjectId(req.id)
        THEN /\ Answer(req, errorHandler(CastError))
             /\ UNCHANGED entities
        ELSE IF r.found = {}
        THEN /\ Answer(req, EntityNotFound)
             /\ UNCHANGED entities
        ELSE /\ entities' = r.coll
             /\ Answer(req, DataResponse(200, CHOOSE e \in r.found : TRUE))

\* PUT /api/entities/:id
Update(sub, id, body) ==
    LET req == [op |-> "update", sub |-> sub, id |-> id, body |-> body]
        error == JoiError(updateSchema, body)
    IN  /\ UNCHANGED <<users, insights, nextId, now, tz, procs, tokens, secrets>>
        /\ IF error # <<>>
           THEN /\ Answer(req, ErrorResponse(400, error))
                /\ UNCHANGED entities
           ELSE UpdateStore(req, UpdateDocument(JoiValue(body), now))

\* DELETE /api/entities/:id from await Entity.findOneAndDelete on; the store
\* removes the document it finds in one atomic operation
DeleteStore(req) ==
    LET found == Find(entities, DeleteFilter(req.id, req.sub))
    IN  IF ~IsObjectId(req.id)
        THEN /\ Answer(req, errorHandler(CastError))
             /\ UNCHANGED entities
        ELSE IF found = {}
        THEN /\ Answer(req, EntityNotFound)
             /\ UNCHANGED entities
        ELSE /\ entities' = entities \ {CHOOSE e \in found : TRUE}
             /\ Answer(req, MessageResponse(200, <<"Entity deleted successfully">>))

\* DELETE /api/entities/:id
Delete(sub, id) ==
    /\ UNCHANGED <<users, insights, nextId, now, tz, procs, tokens, secrets>>
    /\ DeleteStore([op |-> "delete", sub |-> sub, id |-> id])

(***************************************************************************)
(* GET /api/entities: filter, sort, page                                   *)
(***************************************************************************)
\* Number.parseInt of a query string: [nan |-> TRUE] when it has no number
ParsableInts == 0..20
ParseInt(s) ==
    IF \E n \in ParsableInts : ToString(n) = s
    THEN [nan |-> FALSE, n |-> CHOOSE n \in ParsableInts : ToString(n) = s]
    ELSE IF \E n \in ParsableInts : ("-" \o ToString(n)) = s
    THEN [nan |-> FALSE, n |-> 0 - (CHOOSE n \in ParsableInts : ("-" \o ToString(n)) = s)]
    ELSE [nan |-> TRUE, n |-> 0]

\* Number.parseInt(req.query[key]) || dflt: NaN and 0 are falsy
ParseIntOr(q, key, dflt) ==
    IF key \notin DOMAIN q \/ q[key].t # "string" THEN dflt
    ELSE LET p == ParseInt(q[key].v)
         IN  IF p.nan \/ p.n = 0 THEN dflt ELSE p.n

\* if (req.query[key]): a present, non-empty query parameter
Truthy(q, key) == key \in DOMAIN q /\ (q[key].t # "string" \/ q[key].v # "")

\* a query parameter written key[$ne]=x reaches the handler as an object
JNe(s) == [t |-> "object", v |-> [ne |-> s]]

\* the filter document of GET /
ListQueryAnyOwner(sub, q) ==
    [k \in {x \in {"category", "status"} : Truthy(q, x)} |-> q[k]]

ListQuery(sub, q) ==
    [k \in {"userId"} \cup {x \in {"category", "status"} : Truthy(q, x)} |->
        IF k = "userId" THEN JStr(sub) ELSE q[k]]

\* one path of a filter document against a document's value
PathMatches(val, cond) ==
    IF cond.t = "string" THEN val = cond.v ELSE val # cond.v.ne

QueryMatches(doc, query) ==
    \A k \in DOMAIN query : k \in DOMAIN doc /\ PathMatches(doc[k], query[k])

\* let sortOrder: the path sorted on, always descending
SortPath(q) ==
    IF "sortBy" \in DOMAIN q /\ q.sortBy = JStr("views") THEN "views"
    ELSE IF "sortBy" \in DOMAIN q /\ q.sortBy = JStr("engagement") THEN "engagement"
    ELSE "createdAt"

SortValue(doc, path) ==
    IF path = "createdAt" THEN doc.createdAt ELSE doc.metrics[path]

\* the orders .sort() may return: every arrangement that is descending on
\* the path (documents equal on the path come in any order)
RECURSIVE SortedDesc(_, _)
SortedDesc(S, path) ==
    IF S = {} THEN {<<>>}
    ELSE UNION {{<<m>> \o s : s \in SortedDesc(S \ {m}, path)} :
                m \in {x \in S : \A y \in S : SortValue(x, path) >= SortValue(y, path)}}

Min(a, b) == IF a < b THEN a ELSE b

\* .skip(skip).limit(limit); the driver sends a negative limit as its
\* absolute value
Abs(n) == IF n < 0 THEN 0 - n ELSE n

PageNoSkip(s, skip, limit) == SubSeq(s, 1, Min(Abs(limit), Len(s)))

Page(s, skip, limit) == SubSeq(s, skip + 1, Min(skip + Abs(limit), Len(s)))

\* the query strings the model sends to GET /
ListQueries ==
    { [k \in {} |-> JStr("")],
      [page |-> JStr("2"), limit |-> JStr("1")],
      [category |-> JStr("c1"), sortBy |-> JStr("views")],
      [status |-> JStr("active"), limit |-> JStr("1")],
      [category |-> JNe("c1"), page |-> JStr("abc")],
      [status |-> JNe("none"), sortBy |-> JStr("engagement")] }

\* GET /api/entities
List(sub, q) ==
    LET req == [op |-> "list", sub |-> sub, query |-> q]
        page == ParseIntOr(q, "page", 1)
        limit == ParseIntOr(q, "limit", 10)
        skip == (page - 1) * limit
        query == ListQuery(sub, q)
        matching == {e \in entities : QueryMatches(e, query)}
        total == Cardinality(matching)
    IN  /\ UNCHANGED <<users, entities, insights, nextId, now, tz, procs, tokens, secrets>>
        /\ IF skip < 0
           THEN Answer(req, errorHandler([name |-> "MongoServerError",
                                          message |-> <<"skip must be non-negative">>]))
           ELSE \E sorted \in SortedDesc(matching, SortPath(q)) :
                    Answer(req, DataResponse(200,
                        [entities |-> Page(sorted, skip, limit),
                         pagination |-> [page |-> page, limit |-> limit, total |-> total]]))

(***************************************************************************)
(* JavaScript Date, with instants in hours since the epoch                 *)
(***************************************************************************)
DayOf(t) == t \div 24

\* the proleptic Gregorian date <<year, month, day>> of a day number
CivilOfDay(day) ==
    LET z == day + 719468
        era == z \div 146097
        doe == z - era * 146097
        yoe == (doe - (doe \div 1460) + (doe \div 36524) - (doe \div 146096)) \div 365
        doy == doe - (365 * yoe + (yoe \div 4) - (yoe \div 100))
        mp == (5 * doy + 2) \div 153
        d == doy - ((153 * mp + 2) \div 5) + 1
        m == IF mp < 10 THEN mp + 3 ELSE mp - 9
        y == yoe + era * 400 + (IF m <= 2 THEN 1 ELSE 0)
    IN  <<y, m, d>>

\* date.toISOString().split("T")[0]: the UTC calendar date
IsoDate(t) == CivilOfDay(DayOf(t))

\* getFullYear(), getMonth() (1..12 here), getDate(), getDay() read local time
LocalCivil(t, offset) == CivilOfDay(DayOf(t + offset))
GetFullYear(t, offset) == LocalCivil(t, offset)[1]
GetMonth(t, offset) == LocalCivil(t, offset)[2]
GetDay(t, offset) == (DayOf(t + offset) + 4) % 7

\* d.setDate(d.getDate() - n): n local days earlier, same local time of day
MinusDays(t, n) == t - 24 * n

\* new Date(year, month - 1): the month before, December of the year before
\* when the month is January
MonthBeforeSameYear(y, m) == <<y, m - 1>>

MonthBefore(y, m) == IF m = 1 THEN <<y - 1, 12>> ELSE <<y, m - 1>>

\* Math.round of the fraction num / den, den > 0: halves round up
RoundDivDown(num, den) == num \div den

RoundDiv(num, den) == (2 * num + den) \div (2 * den)

RECURSIVE SumOf(_, _)
SumOf(S, path) ==
    IF S = {} THEN 0
    ELSE LET e == CHOOSE x \in S : TRUE
         IN  e.metrics[path] + SumOf(S \ {e}, path)

(***************************************************************************)
(* routes/analytics.js                                                     *)
(***************************************************************************)
DashboardFilter(sub) == [userId |-> sub]
PerformanceFilterAnyOwner(sub) == [k \in {} |-> sub]

PerformanceFilter(sub) == [userId |-> sub]

\* the summary object of GET /dashboard; avgEngagement is kept in tenths
DashboardData(es, t, offset) ==
    LET thisYM == <<GetFullYear(t, offset), GetMonth(t, offset)>>
        lastYM == MonthBefore(thisYM[1], thisYM[2])
        ym(e) == <<GetFullYear(e.createdAt, offset), GetMonth(e.createdAt, offset)>>
        thisMonthEntities == Cardinality({e \in es : ym(e) = thisYM})
        lastMonthEntities == Cardinality({e \in es : ym(e) = lastYM})
    IN  [totalEntities |-> Cardinality(es),
         activeEntities |-> Cardinality({e \in es : e.status = "active"}),
         avgEngagementTenths |->
            IF Cardinality(es) > 0
            THEN RoundDiv(10 * SumOf(es, "engagement"), Cardinality(es))
            ELSE 0,
         totalViews |-> SumOf(es, "views"),
         trend |->
            IF lastMonthEntities > 0
            THEN RoundDiv(100 * (thisMonthEntities - lastMonthEntities), lastMonthEntities)
            ELSE 0]

\* GET /api/analytics/dashboard
Dashboard(sub) ==
    LET req == [op |-> "dashboard", sub |-> sub]
        es == Find(entities, DashboardFilter(sub))
    IN  /\ UNCHANGED <<users, entities, insights, nextId, now, tz, procs, tokens, secrets>>
        /\ Answer(req, DataResponse(200, DashboardData(es, now, tz)))

\* new Date(req.query.startDate): [nan |-> TRUE] for a missing or unparsable
\* string, else the instant
DateParam(t) == [nan |-> FALSE, t |-> t]
InvalidDate == [nan |-> TRUE, t |-> 0]
NewDate(q, key) == IF key \in DOMAIN q THEN q[key] ELSE InvalidDate

\* createdAt: {$gte: startDate, $lte: endDate}
InRangeExclusive(t, startDate, endDate) == startDate < t /\ t < endDate

InRange(t, startDate, endDate) == startDate <= t /\ t <= endDate

\* the dateKey of one entity; <<>> stands for undefined
DateKey(t, period, offset) ==
    IF period = "daily" THEN IsoDate(t)
    ELSE IF period = "weekly" THEN IsoDate(MinusDays(t, GetDay(t, offset)))
    ELSE IF period = "monthly" THEN SubSeq(IsoDate(t), 1, 2)
    ELSE <<>>

\* new Date(a.date) - new Date(b.date) < 0, for two keys of one period
KeyAfter(a, b) ==
    \E i \in 1..Min(Len(a), Len(b)) :
        /\ a[i] > b[i]
        /\ \A j \in 1..(i - 1) : a[j] = b[j]

KeyBefore(a, b) ==
    \E i \in 1..Min(Len(a), Len(b)) :
        /\ a[i] < b[i]
        /\ \A j \in 1..(i - 1) : a[j] = b[j]

\* Object.values(performanceMap): one bucket per dateKey
BucketsPerEntity(es, period, offset) ==
    { [date |-> DateKey(e.createdAt, period, offset),
       entities |-> 1,
       views |-> e.metrics.views,
       engagement |-> e.metrics.engagement] : e \in es }

Buckets(es, period, offset) ==
    { [date |-> key,
       entities |-> Cardinality({e \in es : DateKey(e.createdAt, period, offset) = key}),
       views |-> SumOf({e \in es : DateKey(e.createdAt, period, offset) = key}, "views"),
       engagement |->
           SumOf({e \in es : DateKey(e.createdAt, period, offset) = key}, "engagement")]
      : key \in {DateKey(e.createdAt, period, offset) : e \in es} }

\* .sort((a, b) => new Date(a.date) - new Date(b.date))
RECURSIVE SortedByDate(_)
SortedByDate(B) ==
    IF B = {} THEN <<>>
    ELSE LET first == CHOOSE b \in B : \A c \in B : ~KeyBefore(c.date, b.date)
         IN  <<first>> \o SortedByDate(B \ {first})

\* the query strings the model sends to GET /performance
PerformanceQueries ==
    { [startDate |-> DateParam(StartHour - 12), endDate |-> DateParam(StartHour + 12),
       period |-> "daily"],
      [startDate |-> DateParam(StartHour - 24 * 40), endDate |-> DateParam(StartHour + 24 * 40),
       period |-> "weekly"],
      [startDate |-> DateParam(StartHour - 24 * 40), endDate |-> DateParam(StartHour + 24 * 40),
       period |-> "monthly"],
      [startDate |-> InvalidDate, endDate |-> DateParam(StartHour)] }

\* GET /api/analytics/performance
Performance(sub, q) ==
    LET req == [op |-> "performance", sub |-> sub, query |-> q]
        startDate == NewDate(q, "startDate")
        endDate == NewDate(q, "endDate")
        es == {e \in Find(entities, PerformanceFilter(sub)) :
                  InRange(e.createdAt, startDate.t, endDate.t)}
    IN  /\ UNCHANGED <<users, entities, insights, nextId, now, tz, procs, tokens, secrets>>
        /\ IF startDate.nan \/ endDate.nan
           THEN Answer(req, ErrorResponse(400, <<"Invalid date format">>))
           ELSE LET period == IF "period" \in DOMAIN q THEN q.period ELSE "daily"
                IN  Answer(req, DataResponse(200, SortedByDate(Buckets(es, period, tz))))

(***************************************************************************)
(* Insight model and routes/insights.js                                    *)
(***************************************************************************)
generateSchema ==
    << Rule("prompt", "string", TRUE, {}, 0),
       Rule("entityId", "string", FALSE, {}, 0) >>

\* what axios.post resolves or rejects with
ProviderOutcomes ==
    { [ok |-> TRUE, content |-> "answer"],
      [ok |-> FALSE, response |-> [status |-> 401]],
      [ok |-> FALSE, response |-> [status |-> 429]],
      [ok |-> FALSE] }

ProviderError(outcome) ==
    [name |-> "AxiosError", message |-> <<"Request failed">>]

\* new Insight({...}); confidence 0.85 is kept in hundredths
NewInsight(value, sub, id, content, t) ==
    Merge([_id |-> id,
           userId |-> sub,
           title |-> "AI Generated Insight",
           content |-> content,
           type |-> "generated",
           confidenceHundredths |-> 85,
           createdAt |-> t,
           __v |-> 0],
          [k \in DOMAIN value \cap {"entityId"} |-> value[k]])

\* the request bodies the model sends to POST /generate
GenerateBodies ==
    { [prompt |-> JStr("why")],
      [prompt |-> JStr("why"), entityId |-> JStr("o1")],
      [prompt |-> JStr("why"), entityId |-> JStr(MalformedId)],
      [entityId |-> JStr("o1")] }

\* POST /api/insights/generate
Generate(sub, body, outcome) ==
    LET req == [op |-> "generate", sub |-> sub, body |-> body, provider |-> outcome]
        error == JoiError(generateSchema, body)
        value == JoiValue(body)
    IN  /\ UNCHANGED <<users, entities, now, tz, procs, tokens, secrets>>
        /\ IF error # <<>>
           THEN /\ Answer(req, ErrorResponse(400, error))
                /\ UNCHANGED <<insights, nextId>>
           ELSE IF ~outcome.ok
           THEN /\ IF "response" \in DOMAIN outcome /\ outcome.response.status = 401
                   THEN Answer(req, ErrorResponse(500, <<"OpenRouter API key invalid">>))
                   ELSE Answer(req, errorHandler(ProviderError(outcome)))
                /\ UNCHANGED <<insights, nextId>>
           ELSE /\ nextId <= MaxIds
                /\ nextId' = nextId + 1
                /\ IF "entityId" \in DOMAIN value /\ ~IsObjectId(value.entityId)
                   THEN /\ Answer(req, errorHandler(
                               [name |-> "ValidationError",
                                message |-> <<"Insight validation failed">>]))
                        /\ UNCHANGED insights
                   ELSE LET insight ==
                               NewInsight(value, sub, IdPool[nextId], outcome.content, now)
                        IN  /\ insights' = insights \cup {insight}
                            /\ Answer(req, DataResponse(200,
                                   [insight |-> insight.content,
                                    confidenceHundredths |-> insight.confidenceHundredths,
                                    model |-> "openai/gpt-4-mini"]))

\* the filter document of GET /api/insights
InsightQuery(sub, q) ==
    [k \in {"userId"} \cup {x \in {"type"} : Truthy(q, x)} |->
        IF k = "userId" THEN JStr(sub) ELSE q[k]]

\* the query strings the model sends to GET /api/insights
InsightQueries ==
    { [k \in {} |-> JStr("")],
      [type |-> JStr("generated"), limit |-> JStr("1")],
      [type |-> JNe("trend")] }

\* GET /api/insights
InsightList(sub, q) ==
    LET req == [op |-> "insightList", sub |-> sub, query |-> q]
        limit == ParseIntOr(q, "limit", 20)
        matching == {d \in insights : QueryMatches(d, InsightQuery(sub, q))}
    IN  /\ UNCHANGED <<users, entities, insights, nextId, now, tz, procs, tokens, secrets>>
        /\ \E sorted \in SortedDesc(matching, "createdAt") :
               Answer(req, DataResponse(200, Page(sorted, 0, limit)))

(***************************************************************************)
(* User model (models/User.js) and middleware/auth.js                      *)
(***************************************************************************)
\* String.prototype.toLowerCase on the strings of the model
ToLowerCase(s) == IF s = "A@x.io" THEN "a@x.io" ELSE s

\* email.split("@")[0]
LocalPart(s) == IF ToLowerCase(s) = "a@x.io" THEN "a" ELSE "b"

\* the setter of the email path (lowercase: true), which Mongoose runs on a
\* value assigned to a document and on a value in a query filter alike
EmailSetter(s) == ToLowerCase(s)

\* bcrypt.hash(secret, salt) and bcrypt.compare(candidate, hash)
BcryptHash(secret) == "$2a$10$" \o secret
BcryptCompare(candidate, hash) == hash = BcryptHash(candidate)

\* userSchema.pre("save"): hashes the secret when the path is modified
PreSaveAlways(doc, modified) ==
    IF "passwordHash" \in DOMAIN doc
    THEN [doc |-> [doc EXCEPT !.passwordHash = BcryptHash(@)],
          modified |-> modified \cup {"passwordHash"}]
    ELSE [doc |-> doc, modified |-> modified]

PreSave(doc, modified) ==
    IF "passwordHash" \notin modified
    THEN [doc |-> doc, modified |-> modified]
    ELSE [doc |-> [doc EXCEPT !.passwordHash = BcryptHash(@)], modified |-> modified]

\* the unique indexes of the collection: email, and googleId where present
UniqueOkNever(coll, doc) == TRUE

UniqueOk(coll, doc) ==
    \A u \in coll :
        u._id # doc._id =>
            /\ u.email # doc.email
            /\ ("googleId" \in DOMAIN u /\ "googleId" \in DOMAIN doc) =>
                   u.googleId # doc.googleId

DuplicateKey == [name |-> "MongoServerError", code |-> 11000,
                 message |-> <<"E11000 duplicate key error">>]

\* document.save(): the hook, then an insert of a new document or a $set of
\* the modified paths of a stored one, either of which a unique index may refuse
Save(doc, modified, isNew, t) ==
    LET hooked == PreSave(doc, modified)
        stored ==
            IF isNew THEN hooked.doc
            ELSE LET old == CHOOSE u \in users : u._id = doc._id
                 IN  Merge(old, Merge([k \in hooked.modified |-> hooked.doc[k]],
                                      [updatedAt |-> t]))
    IN  IF UniqueOk(users, stored)
        THEN [ok |-> TRUE, doc |-> stored,
              users |-> {u \in users : u._id # doc._id} \cup {stored}]
        ELSE [ok |-> FALSE, error |-> DuplicateKey]

\* new User(fields)
NewUser(fields, id, t) ==
    Merge([_id |-> id, createdAt |-> t, updatedAt |-> t, __v |-> 0],
          [k \in DOMAIN fields |->
              IF k = "email" THEN EmailSetter(fields[k]) ELSE fields[k]])

\* userSchema.methods.toJSON
toJSONKeepAll(user) == user

toJSON(user) ==
    [k \in DOMAIN user \ {"passwordHash", "__v"} |-> user[k]]

\* a value of process.env.JWT_EXPIRY: unset (or empty, which is as falsy), or
\* a text made of a number and a unit, as "7d", "3600s" or "604800"
EnvUnset == [set |-> FALSE]
EnvText(n, unit) == [set |-> TRUE, n |-> n, unit |-> unit]

\* Number.parseInt(text): the leading digits of the text
ParseIntLeading(text) == text.n

\* what jwt.sign makes of a string expiresIn: the text is read as a time span
\* in milliseconds, a text without unit being milliseconds itself, and exp is
\* set Math.floor(milliseconds / 1000) seconds after iat
Ms(text) ==
    text.n * (CASE text.unit = "" -> 1
                [] text.unit = "s" -> 1000
                [] text.unit = "m" -> 60 * 1000
                [] text.unit = "h" -> 3600 * 1000
                [] text.unit = "d" -> 24 * 3600 * 1000)

Timespan(text) == Ms(text) \div 1000

\* generateTokens under a value of JWT_EXPIRY: the signed claims, with the
\* lifetime exp - iat of the token in seconds, and the advertised expiresIn
DefaultExpirySeconds == 604800
generateTokensUnder(expiry, userId, email) ==
    LET expiresIn == IF expiry.set THEN expiry ELSE EnvText(7, "d")
    IN  [accessToken |-> [sub |-> userId, email |-> email, lifetime |-> Timespan(expiresIn)],
         expiresIn |-> ParseIntLeading(IF expiry.set THEN expiry
                                       ELSE EnvText(DefaultExpirySeconds, ""))]

\* generateTokens of a server started without JWT_EXPIRY
generateTokens(userId, email) == generateTokensUnder(EnvUnset, userId, email)

\* process.env.JWT_SECRET
JwtSecret == "jwt-secret"

\* what the model puts after "Bearer ": a signed token, a string that is no
\* token, the empty string
Jwt(sub, exp, sig) == [kind |-> "jwt", claims |-> [sub |-> sub], exp |-> exp, sig |-> sig]
Garbage == [kind |-> "garbage"]
EmptyString == [kind |-> "empty"]
Undefined == [kind |-> "undefined"]

\* a header is authHeader.split(" "), or absent
Header(parts) == [present |-> TRUE, parts |-> parts]

\* jwt.verify(token, secret) at time t: the token is a JWT, its signature is
\* the secret's, and its exp lies ahead; anything else makes it throw
JwtVerifyIgnoreExpiry(token, t) ==
    /\ token.kind = "jwt"
    /\ token.sig = JwtSecret

JwtVerify(token, t) ==
    /\ token.kind = "jwt"
    /\ token.sig = JwtSecret
    /\ t < token.exp

\* middleware/auth.js authenticateToken: next() with req.user, or the answer
authenticateToken(header, t) ==
    LET token == IF header.present /\ Len(header.parts) >= 2
                 THEN header.parts[2] ELSE Undefined
    IN  IF token.kind \in {"undefined", "empty"}
        THEN [next |-> FALSE, res |-> ErrorResponse(401, <<"Access token required">>)]
        ELSE IF JwtVerify(token, t)
        THEN [next |-> TRUE, user |-> token.claims]
        ELSE [next |-> FALSE, res |-> ErrorResponse(403, <<"Invalid or expired token">>)]

\* router.METHOD(path, authenticateToken, handler): the handler, a step taken
\* for subject sub, runs when sub is the decoded subject, or the middleware
\* answers and nothing else happens
Protected(header, op, sub, handler) ==
    LET auth == authenticateToken(header, now)
    IN  /\ authorization' = header
        /\ IF auth.next
           THEN auth.user.sub = sub /\ handler
           ELSE /\ Answer([op |-> op], auth.res)
                /\ UNCHANGED <<users, entities, insights, nextId, now, tz, procs,
                               tokens, secrets>>

(***************************************************************************)
(* routes/auth.js.  A handler that awaits the database twice is one action *)
(* per database call, its locals kept in its slot between them.            *)
(***************************************************************************)
Idle == [pc |-> "idle"]

signupSchema ==
    << Rule("email", "email", TRUE, {}, 0),
       Rule("password", "string", TRUE, {}, 8),
       Rule("name", "string", TRUE, {}, 0) >>

loginSchema ==
    << Rule("email", "email", TRUE, {}, 0),
       Rule("password", "string", TRUE, {}, 0) >>

profileSchema ==
    << Rule("name", "string", FALSE, {}, 0),
       Rule("avatar", "uri", FALSE, {}, 0) >>

\* the filter of User.findOne({ email }) after query casting
EmailFilterExact(email) == [email |-> email]
EmailFilter(email) == [email |-> EmailSetter(email)]

\* history: an account with this address, letter case ignored, is stored
Registered(email) == \E u \in users : ToLowerCase(u.email) = ToLowerCase(email)

SignupBodies ==
    { [email |-> JStr("a@x.io"), password |-> JStr("password1"), name |-> JStr("Ann")],
      [email |-> JStr("A@x.io"), password |-> JStr("password2"), name |-> JStr("Ann")],
      [email |-> JStr("b@x.io"), password |-> JStr("password1"), name |-> JStr("Bob")],
      [email |-> JStr("a@x.io"), password |-> JStr("short"), name |-> JStr("Ann")] }

\* POST /api/auth/signup up to await User.findOne
SignupBegin(slot, body) ==
    LET registered == "email" \in DOMAIN body /\ Registered(body.email.v)
        req == [op |-> "signup", body |-> body, registered |-> registered]
        error == JoiError(signupSchema, body)
        value == JoiValue(body)
    IN  /\ procs[slot] = Idle
        /\ UNCHANGED <<users, entities, insights, now, tz, tokens, secrets>>
        /\ IF error # <<>>
           THEN /\ Answer(req, ErrorResponse(400, error))
                /\ UNCHANGED <<procs, nextId>>
           ELSE IF Find(users, EmailFilter(value.email)) # {}
           THEN /\ Answer(req, ErrorResponse(400, <<"Email already registered">>))
                /\ UNCHANGED <<procs, nextId>>
           ELSE /\ nextId <= MaxIds
                /\ nextId' = nextId + 1
                /\ procs' = [procs EXCEPT ![slot] =
                       [pc |-> "signupSave",
                        req |-> req,
                        doc |-> NewUser([email |-> value.email,
                                         passwordHash |-> value.password,
                                         name |-> value.name], IdPool[nextId], now),
                        modified |-> {"email", "passwordHash", "name"}]]
                /\ Silent

\* POST /api/auth/signup from await user.save() on
SignupSave(slot) ==
    LET p == procs[slot]
        saved == Save(p.doc, p.modified, TRUE, now)
    IN  /\ p.pc = "signupSave"
        /\ procs' = [procs EXCEPT ![slot] = Idle]
        /\ UNCHANGED <<entities, insights, nextId, now, tz>>
        /\ IF saved.ok
           THEN /\ users' = saved.users
                /\ tokens' = tokens \cup {saved.doc._id}
                /\ secrets' = secrets \cup
                       {[id |-> saved.doc._id, password |-> p.req.body.password.v]}
                /\ Answer(p.req, DataResponse(201,
                       generateTokens(saved.doc._id, saved.doc.email)))
           ELSE /\ Answer(p.req, errorHandler(saved.error))
                /\ UNCHANGED <<users, tokens, secrets>>

InvalidCredentials == ErrorResponse(401, <<"Invalid email or password">>)

\* if (!user || !user.passwordHash)
LoginRejectsOnlyMissing(found) == found = {}

LoginRejects(found) ==
    \/ found = {}
    \/ "passwordHash" \notin DOMAIN (CHOOSE u \in found : TRUE)

LoginBodies ==
    { [email |-> JStr("a@x.io"), password |-> JStr("password1")],
      [email |-> JStr("A@x.io"), password |-> JStr("password2")],
      [email |-> JStr("b@x.io"), password |-> JStr("password1")],
      [email |-> JStr("a@x.io")] }

\* POST /api/auth/login
Login(body) ==
    LET req == [op |-> "login", body |-> body]
        error == JoiError(loginSchema, body)
        value == JoiValue(body)
        found == Find(users, EmailFilter(value.email))
        user == CHOOSE u \in found : TRUE
    IN  /\ UNCHANGED <<users, entities, insights, nextId, now, tz, procs, secrets>>
        /\ IF error # <<>>
           THEN /\ Answer(req, ErrorResponse(400, error))
                /\ UNCHANGED tokens
           ELSE IF LoginRejects(found)
           THEN /\ Answer(req, InvalidCredentials)
                /\ UNCHANGED tokens
           ELSE IF "passwordHash" \notin DOMAIN user
           THEN /\ Answer(req, errorHandler(
                       [name |-> "Error", message |-> <<"Illegal arguments: string, undefined">>]))
                /\ UNCHANGED tokens
           ELSE IF ~BcryptCompare(value.password, user.passwordHash)
           THEN /\ Answer(req, InvalidCredentials)
                /\ UNCHANGED tokens
           ELSE /\ tokens' = tokens \cup {user._id}
                /\ Answer(req, DataResponse(200, generateTokens(user._id, user.email)))

\* googleClient.verifyIdToken: the payload of a token Google signed for this
\* audience; anything else makes it throw
VerifyIdToken(idToken) ==
    IF idToken = "g1a"
    THEN [ok |-> TRUE, payload |-> [sub |-> "g1", email |-> "a@x.io", name |-> "Ann",
                                    picture |-> "https://x.io/a.png"]]
    ELSE IF idToken = "g2a"
    THEN [ok |-> TRUE, payload |-> [sub |-> "g2", email |-> "a@x.io"]]
    ELSE [ok |-> FALSE, error |-> [name |-> "Error", message |-> <<"Invalid token">>]]

GoogleBodies ==
    { [idToken |-> JStr("g1a")],
      [idToken |-> JStr("g2a")],
      [idToken |-> JStr("forged")],
      [k \in {} |-> JStr("")] }

\* the catch block of POST /google
GoogleCatchForward(err) == errorHandler(err)

GoogleCatch(err) == ErrorResponse(400, <<"Google authentication failed">>)

\* POST /api/auth/google up to await User.findOne({ googleId })
GoogleBegin(slot, body) ==
    LET idToken == IF "idToken" \in DOMAIN body THEN body.idToken.v ELSE ""
        ticket == VerifyIdToken(idToken)
        req == [op |-> "google", body |-> body, verified |-> ticket.ok,
                branch |-> "none", resolved |-> ""]
        found == Find(users, [googleId |-> ticket.payload.sub])
        user == CHOOSE u \in found : TRUE
    IN  /\ procs[slot] = Idle
        /\ UNCHANGED <<users, entities, insights, nextId, now, tz, secrets>>
        /\ IF idToken = ""
           THEN /\ Answer(req, ErrorResponse(400, <<"ID token is required">>))
                /\ UNCHANGED <<procs, tokens>>
           ELSE IF ~ticket.ok
           THEN /\ Answer(req, GoogleCatch(ticket.error))
                /\ UNCHANGED <<procs, tokens>>
           ELSE IF found # {}
           THEN /\ tokens' = tokens \cup {user._id}
                /\ Answer([req EXCEPT !.branch = "bySubject", !.resolved = user._id],
                          DataResponse(200, generateTokens(user._id, user.email)))
                /\ UNCHANGED procs
           ELSE /\ procs' = [procs EXCEPT ![slot] =
                       [pc |-> "googleFindEmail", req |-> req, payload |-> ticket.payload]]
                /\ UNCHANGED tokens
                /\ Silent

\* POST /api/auth/google from await User.findOne({ email }) to user.save()
GoogleFindEmail(slot) ==
    LET p == procs[slot]
        payload == p.payload
        found == Find(users, EmailFilter(payload.email))
        user == CHOOSE u \in found : TRUE
        fields ==
            Merge([email |-> payload.email,
                   name |-> IF "name" \in DOMAIN payload THEN payload.name
                            ELSE LocalPart(payload.email),
                   googleId |-> payload.sub],
                  [k \in DOMAIN payload \cap {"picture"} |-> payload[k]])
        created ==
            [k \in {IF x = "picture" THEN "avatar" ELSE x : x \in DOMAIN fields} |->
                IF k = "avatar" THEN fields.picture ELSE fields[k]]
    IN  /\ p.pc = "googleFindEmail"
        /\ UNCHANGED <<users, entities, insights, now, tz, tokens, secrets>>
        /\ Silent
        /\ IF found # {}
           THEN /\ procs' = [procs EXCEPT ![slot] =
                       [pc |-> "googleSave",
                        req |-> [p.req EXCEPT !.branch = "byEmail", !.resolved = user._id],
                        doc |-> Merge(user, [googleId |-> payload.sub]),
                        modified |-> {"googleId"},
                        isNew |-> FALSE]]
                /\ UNCHANGED nextId
           ELSE /\ nextId <= MaxIds
                /\ nextId' = nextId + 1
                /\ procs' = [procs EXCEPT ![slot] =
                       [pc |-> "googleSave",
                        req |-> [p.req EXCEPT !.branch = "create",
                                              !.resolved = IdPool[nextId]],
                        doc |-> NewUser(created, IdPool[nextId], now),
                        modified |-> DOMAIN created,
                        isNew |-> TRUE]]

\* POST /api/auth/google from await user.save() on
GoogleSave(slot) ==
    LET p == procs[slot]
        saved == Save(p.doc, p.modified, p.isNew, now)
    IN  /\ p.pc = "googleSave"
        /\ procs' = [procs EXCEPT ![slot] = Idle]
        /\ UNCHANGED <<entities, insights, nextId, now, tz, secrets>>
        /\ IF saved.ok
           THEN /\ users' = saved.users
                /\ tokens' = tokens \cup {saved.doc._id}
                /\ Answer(p.req, DataResponse(200,
                       generateTokens(saved.doc._id, saved.doc.email)))
           ELSE /\ Answer(p.req, GoogleCatch(saved.error))
                /\ UNCHANGED <<users, tokens>>

\* GET /api/auth/me, under a credential generateTokens signed for sub
Me(sub) ==
    LET req == [op |-> "me", sub |-> sub]
        found == Find(users, [_id |-> sub])
    IN  /\ sub \in tokens
        /\ UNCHANGED <<users, entities, insights, nextId, now, tz, procs, tokens, secrets>>
        /\ IF found = {}
           THEN Answer(req, ErrorResponse(404, <<"User not found">>))
           ELSE Answer(req, DataResponse(200, toJSON(CHOOSE u \in found : TRUE)))

ProfileBodies ==
    { [name |-> JStr("Zed"), avatar |-> JStr("https://x.io/a.png")],
      [avatar |-> JStr("nowhere")],
      [passwordHash |-> JStr("password2")] }

\* PUT /api/auth/profile, under a credential generateTokens signed for sub
UpdateProfile(sub, body) ==
    LET req == [op |-> "updateProfile", sub |-> sub, body |-> body]
        error == JoiError(profileSchema, body)
        found == Find(users, [_id |-> sub])
        old == CHOOSE u \in found : TRUE
        user == Merge(old, Merge(JoiValue(body), [updatedAt |-> now]))
    IN  /\ sub \in tokens
        /\ UNCHANGED <<entities, insights, nextId, now, tz, procs, tokens, secrets>>
        /\ IF error # <<>>
           THEN /\ Answer(req, ErrorResponse(400, error))
                /\ UNCHANGED users
           ELSE IF found = {}
           THEN /\ Answer(req, errorHandler(
                       [name |-> "TypeError", message |-> <<"Cannot read properties of null">>]))
                /\ UNCHANGED users
           ELSE /\ users' = (users \ {old}) \cup {user}
                /\ Answer(req, DataResponse(200, toJSON(user)))

\* POST /api/auth/logout
Logout(sub) ==
    /\ sub \in tokens
    /\ UNCHANGED <<users, entities, insights, nextId, now, tz, procs, tokens, secrets>>
    /\ Answer([op |-> "logout", sub |-> sub],
              MessageResponse(200, <<"Logged out successfully">>))

(***************************************************************************)
(* Specification Spec: the entity endpoints under the credentials of       *)
(* MaxCallers subjects, from an empty collection                           *)
(***************************************************************************)
TzOffsets == {0}

Init ==
    /\ users = {}
    /\ entities = {}
    /\ insights = {}
    /\ nextId = 1
    /\ now = StartHour
    /\ tz \in TzOffsets
    /\ procs = [s \in Slots |-> [pc |-> "idle"]]
    /\ tokens = {}
    /\ secrets = {}
    /\ request = NoRequest
    /\ response = NoResponse
    /\ authorization = NoHeader

\* a step whose Authorization header the specification does not look at: the
\* request is past authenticateToken, or its route has no such middleware
Admitted == authorization' = NoHeader

Next ==
    \/ \E sub \in Callers, body \in CreateBodies : Create(sub, body) /\ Admitted
    \/ \E sub \in Callers, id \in IdParams : GetOne(sub, id) /\ Admitted
    \/ \E sub \in Callers, id \in IdParams, body \in UpdateBodies : Update(sub, id, body) /\ Admitted
    \/ \E sub \in Callers, id \in IdParams : Delete(sub, id) /\ Admitted
    \/ \E sub \in Callers, q \in ListQueries : List(sub, q) /\ Admitted

Spec == Init /\ [][Next]_vars

(***************************************************************************)
(* Specification SpecReads: every read endpoint next to the writes that    *)
(* fill the collections, with the clock advancing                          *)
(***************************************************************************)
Tick ==
    /\ now < StartHour + MaxTicks * HoursPerTick
    /\ now' = now + HoursPerTick
    /\ Silent
    /\ UNCHANGED <<users, entities, insights, nextId, tz, procs, tokens, secrets>>

ReadsCreateBodies == {b \in CreateBodies : JoiError(createSchema, b) = <<>>}
ReadsUpdateBodies == {[status |-> JStr("inactive")], [category |-> JStr("c2")]}
ReadsGenerateBodies == {[prompt |-> JStr("why")]}
ReadsProviderOutcomes == {o \in ProviderOutcomes : o.ok \/ "response" \notin DOMAIN o}

NextReads ==
    \/ \E sub \in Callers, body \in ReadsCreateBodies : Create(sub, body) /\ Admitted
    \/ \E sub \in Callers, id \in ObjectIds, body \in ReadsUpdateBodies :
           Update(sub, id, body) /\ Admitted
    \/ \E sub \in Callers, id \in ObjectIds : Delete(sub, id) /\ Admitted
    \/ \E sub \in Callers, body \in ReadsGenerateBodies, outcome \in ReadsProviderOutcomes :
           Generate(sub, body, outcome) /\ Admitted
    \/ \E sub \in Callers, id \in ObjectIds : GetOne(sub, id) /\ Admitted
    \/ \E sub \in Callers, q \in ListQueries : List(sub, q) /\ Admitted
    \/ \E sub \in Callers : Dashboard(sub) /\ Admitted
    \/ \E sub \in Callers, q \in PerformanceQueries : Performance(sub, q) /\ Admitted
    \/ \E sub \in Callers, q \in InsightQueries : InsightList(sub, q) /\ Admitted
    \/ Tick /\ Admitted

SpecReads == Init /\ [][NextReads]_vars

(***************************************************************************)
(* Properties of the entity and read endpoints                             *)
(***************************************************************************)
Owned(sub) == {e \in entities : e.userId = sub}
OwnedInsights(sub) == {d \in insights : d.userId = sub}

\* the step answered a PUT or DELETE /:id that names an entity of another subject
NonOwnerWrite(e) ==
    /\ request'.op \in {"update", "delete"}
    /\ request'.id = e._id
    /\ request'.sub # e.userId

\* C1 as stated: an update or delete that names another subject's entity
\* answers 404 and leaves the collection as it was.
C1_NonOwnerAlways404 ==
    [][\A e \in entities :
          NonOwnerWrite(e) => response'.status = 404 /\ entities' = entities]_vars

\* C1 amended: an update or delete that names another subject's entity
\* answers 400 when it is an update whose body fails the schema and 404
\* otherwise, never 200 or 403, and leaves the collection as it was.
C1_NonOwner404Or400 ==
    [][\A e \in entities :
          NonOwnerWrite(e) =>
              /\ response'.status =
                    IF /\ request'.op = "update"
                       /\ JoiError(updateSchema, request'.body) # <<>>
                    THEN 400 ELSE 404
              /\ response'.body.success = FALSE
              /\ entities' = entities]_vars

\* a valid update by a subject that does not own the entity was answered 404
C1_Witness ==
    /\ request.op = "update"
    /\ JoiError(updateSchema, request.body) = <<>>
    /\ \E e \in entities : e._id = request.id /\ e.userId # request.sub
    /\ response = EntityNotFound

\* C2: GET /:id answers 404 exactly when no entity has both the id and the
\* caller as owner, and that answer is the one fixed not-found envelope
\* whether or not another subject owns the id.
C2_GetOne404Iff ==
    request.op = "getOne" =>
        LET none == \A e \in entities :
                        ~(e._id = request.id /\ e.userId = request.sub)
        IN  /\ (response.status = 404) <=> none
            /\ none => response = EntityNotFound

RECURSIVE SeqSum(_, _)
SeqSum(s, field) ==
    IF s = <<>> THEN 0 ELSE Head(s)[field] + SeqSum(Tail(s), field)

\* C3: what a read endpoint returns or aggregates is owned by the subject of
\* the caller's credential: every listed entity or insight and the entity
\* read by id are documents of the caller, and the counts and sums of list,
\* dashboard and performance are those of the caller's documents alone.
C3_ReadsOnlyOwn ==
    LET sub == request.sub
        data == response.body.data
    IN  /\ (request.op = "list" /\ response.status = 200) =>
               /\ \A i \in 1..Len(data.entities) : data.entities[i] \in Owned(sub)
               /\ data.pagination.total =
                     Cardinality({e \in Owned(sub) :
                         \A k \in {"category", "status"} :
                             Truthy(request.query, k) =>
                                 PathMatches(e[k], request.query[k])})
        /\ (request.op = "getOne" /\ response.status = 200) => data \in Owned(sub)
        /\ (request.op = "insightList" /\ response.status = 200) =>
               \A i \in 1..Len(data) : data[i] \in OwnedInsights(sub)
        /\ (request.op = "dashboard" /\ response.status = 200) =>
               /\ data.totalEntities = Cardinality(Owned(sub))
               /\ data.activeEntities =
                     Cardinality({e \in Owned(sub) : e.status = "active"})
               /\ data.totalViews = SumOf(Owned(sub), "views")
        /\ (request.op = "performance" /\ response.status = 200) =>
               /\ SeqSum(data, "entities") =
                     Cardinality({e \in Owned(sub) :
                         /\ request.query.startDate.t <= e.createdAt
                         /\ e.createdAt <= request.query.endDate.t})
               /\ SeqSum(data, "views") =
                     SumOf({e \in Owned(sub) :
                         /\ request.query.startDate.t <= e.createdAt
                         /\ e.createdAt <= request.query.endDate.t}, "views")

\* a list that returned the caller's entity while another subject has one too
C3_Witness ==
    /\ request.op = "list"
    /\ response.status = 200
    /\ Len(response.body.data.entities) >= 1
    /\ \E e \in entities : e.userId # request.sub

(***************************************************************************)
(* Specification SpecAuth: the auth endpoints, MaxProcs requests in flight *)
(***************************************************************************)
NextAuth ==
    \/ \E slot \in Slots, body \in SignupBodies : SignupBegin(slot, body) /\ Admitted
    \/ \E slot \in Slots : SignupSave(slot) /\ Admitted
    \/ \E body \in LoginBodies : Login(body) /\ Admitted
    \/ \E slot \in Slots, body \in GoogleBodies : GoogleBegin(slot, body) /\ Admitted
    \/ \E slot \in Slots : GoogleFindEmail(slot) /\ Admitted
    \/ \E slot \in Slots : GoogleSave(slot) /\ Admitted
    \/ \E sub \in tokens : Me(sub) /\ Admitted
    \/ \E sub \in tokens, body \in ProfileBodies : UpdateProfile(sub, body) /\ Admitted
    \/ \E sub \in tokens : Logout(sub) /\ Admitted

SpecAuth == Init /\ [][NextAuth]_vars

(***************************************************************************)
(* Properties of the auth endpoints                                        *)
(***************************************************************************)
\* the accounts whose address is the given one, letter case ignored
AccountsOf(email) == {u \in users : ToLowerCase(u.email) = ToLowerCase(email)}

\* C4: a signup whose email is, ignoring letter case, the email of an account
\* registered when the request arrives is answered 400 and leaves the user
\* collection as it was.
C4_DuplicateSignup400 ==
    [][(request'.op = "signup" /\ request'.registered) =>
           response'.status = 400 /\ users' = users]_vars

\* a signup of "A@x.io" was refused because "a@x.io" is registered
C4_Witness ==
    /\ request.op = "signup"
    /\ request.body.email.v = "A@x.io"
    /\ JoiError(signupSchema, request.body) = <<>>
    /\ \E u \in users : u.email = "a@x.io"
    /\ response = ErrorResponse(400, <<"Email already registered">>)

\* C5: the user collection never holds two accounts with the same
\* case-folded email, nor two with the same provider subject id, however
\* signups and external logins interleave.
C5_UniqueAccounts ==
    \A u1, u2 \in users :
        u1 # u2 =>
            /\ u1._id # u2._id
            /\ ToLowerCase(u1.email) # ToLowerCase(u2.email)
            /\ ("googleId" \in DOMAIN u1 /\ "googleId" \in DOMAIN u2) =>
                   u1.googleId # u2.googleId

\* a signup that found no account when it looked was refused by the unique
\* index when it saved: another request had created the account in between
C5_Witness ==
    /\ request.op = "signup"
    /\ ~request.registered
    /\ response.status = 500
    /\ AccountsOf(request.body.email.v) # {}

\* C6: a well-formed password login is answered with the one 401 envelope
\* when no account has the email, when the account has no secret hash, and
\* when the secret does not match the hash.
C6_LoginUniform401 ==
    (request.op = "login" /\ JoiError(loginSchema, request.body) = <<>>) =>
        LET accounts == AccountsOf(request.body.email.v)
        IN  (\/ accounts = {}
             \/ \E u \in accounts : "passwordHash" \notin DOMAIN u
             \/ \E u \in accounts :
                    /\ "passwordHash" \in DOMAIN u
                    /\ u.passwordHash # BcryptHash(request.body.password.v))
            => response = InvalidCredentials

\* a password login against an account that only an external login created
C6_Witness ==
    /\ request.op = "login"
    /\ \E u \in AccountsOf(request.body.email.v) : "passwordHash" \notin DOMAIN u
    /\ response = InvalidCredentials

\* C7: an external login whose token the provider verified is answered 200
\* with a credential for the account it resolved, in each of the branches
\* found-by-subject, found-by-email and create.
C7_GoogleAlways200 ==
    (request.op = "google" /\ request.verified) =>
        /\ response.status = 200
        /\ response.body.data.accessToken.sub = request.resolved
        /\ request.branch \in {"bySubject", "byEmail", "create"}

\* C8: an external login is answered 200 or 400, never 500 and never by the
\* central error responder, whatever fails in it.
C8_GoogleNever500 ==
    request.op = "google" =>
        \/ response.status = 200
        \/ /\ response.status = 400
           /\ response.body.error \in {<<"ID token is required">>,
                                       <<"Google authentication failed">>}

\* an external login whose token was verified failed later, at the save
C8_Witness ==
    /\ request.op = "google"
    /\ request.verified
    /\ response.status = 400

\* C9: the user that GET /me and PUT /profile serialize has no passwordHash
\* field, whatever the account's state.
C9_NoSecretHash ==
    (request.op \in {"me", "updateProfile"} /\ response.status = 200) =>
        "passwordHash" \notin DOMAIN response.body.data

\* the profile of an account with both a secret hash and a provider subject
C9_Witness ==
    /\ request.op = "me"
    /\ response.status = 200
    /\ \E u \in users :
           /\ u._id = request.sub
           /\ "passwordHash" \in DOMAIN u
           /\ "googleId" \in DOMAIN u

\* C10: the stored hash of an account that signup created is the hash of the
\* secret it signed up with, hashed once, after every later save and update,
\* and a login with that secret is answered 200.
C10_HashedOnce ==
    /\ \A g \in secrets :
           \E u \in users :
               /\ u._id = g.id
               /\ "passwordHash" \in DOMAIN u
               /\ u.passwordHash = BcryptHash(g.password)
    /\ (/\ request.op = "login"
        /\ JoiError(loginSchema, request.body) = <<>>
        /\ \E g \in secrets, u \in AccountsOf(request.body.email.v) :
               g.id = u._id /\ g.password = request.body.password.v)
       => response.status = 200

\* a password login succeeds on an account that an external login has linked
\* and a profile update has renamed since it signed up
C10_Witness ==
    /\ request.op = "login"
    /\ response.status = 200
    /\ \E u \in users :
           /\ u._id = response.body.data.accessToken.sub
           /\ "googleId" \in DOMAIN u
           /\ u.name = "Zed"

(***************************************************************************)
(* Specification SpecGate: every protected route behind authenticateToken, *)
(* called with well-formed, expired, forged, malformed and missing         *)
(* credentials, from a state in which one account has signed up            *)
(***************************************************************************)
GateSubject == SubPool[1]

\* the Authorization headers the model sends
GateHeaders ==
    { NoHeader,
      Header(<<"Bearer">>),
      Header(<<"Bearer", EmptyString>>),
      Header(<<"Bearer", Garbage>>),
      Header(<<"Bearer", Jwt(GateSubject, StartHour + 7 * 24, JwtSecret)>>),
      Header(<<"Bearer", Jwt(GateSubject, StartHour + 12, JwtSecret)>>),
      Header(<<"Bearer", Jwt(GateSubject, StartHour, JwtSecret)>>),
      Header(<<"Bearer", Jwt(GateSubject, StartHour + 7 * 24, "another-secret")>>) }

GateCreateBodies == {[title |-> JStr("t1"), category |-> JStr("c1")], [title |-> JStr("t1")]}
GateUpdateBodies == {[status |-> JStr("inactive")]}
GateListQueries == {[k \in {} |-> JStr("")]}
GatePerformanceQueries ==
    {[startDate |-> DateParam(StartHour - 12), endDate |-> DateParam(StartHour + 12)]}
GateProfileBodies == {[name |-> JStr("Zed")]}

InitGate ==
    /\ users = {NewUser([email |-> "a@x.io", passwordHash |-> BcryptHash("password1"),
                         name |-> "Ann"], GateSubject, StartHour)}
    /\ entities = {}
    /\ insights = {}
    /\ nextId = 1
    /\ now = StartHour
    /\ tz \in TzOffsets
    /\ procs = [s \in Slots |-> [pc |-> "idle"]]
    /\ tokens = {GateSubject}
    /\ secrets = {[id |-> GateSubject, password |-> "password1"]}
    /\ request = NoRequest
    /\ response = NoResponse
    /\ authorization = NoHeader

NextGate ==
    \/ \E h \in GateHeaders, sub \in Callers :
           Protected(h, "create", sub, \E body \in GateCreateBodies : Create(sub, body))
    \/ \E h \in GateHeaders, sub \in Callers :
           Protected(h, "getOne", sub, \E id \in ObjectIds : GetOne(sub, id))
    \/ \E h \in GateHeaders, sub \in Callers :
           Protected(h, "update", sub,
                     \E id \in ObjectIds, body \in GateUpdateBodies : Update(sub, id, body))
    \/ \E h \in GateHeaders, sub \in Callers :
           Protected(h, "delete", sub, \E id \in ObjectIds : Delete(sub, id))
    \/ \E h \in GateHeaders, sub \in Callers :
           Protected(h, "list", sub, \E q \in GateListQueries : List(sub, q))
    \/ \E h \in GateHeaders, sub \in Callers :
           Protected(h, "generate", sub,
                     \E body \in ReadsGenerateBodies, outcome \in ReadsProviderOutcomes :
                         Generate(sub, body, outcome))
    \/ \E h \in GateHeaders, sub \in Callers :
           Protected(h, "insightList", sub, \E q \in InsightQueries : InsightList(sub, q))
    \/ \E h \in GateHeaders, sub \in Callers :
           Protected(h, "dashboard", sub, Dashboard(sub))
    \/ \E h \in GateHeaders, sub \in Callers :
           Protected(h, "performance", sub,
                     \E q \in GatePerformanceQueries : Performance(sub, q))
    \/ \E h \in GateHeaders, sub \in Callers :
           Protected(h, "me", sub, Me(sub))
    \/ \E h \in GateHeaders, sub \in Callers :
           Protected(h, "updateProfile", sub,
                     \E body \in GateProfileBodies : UpdateProfile(sub, body))
    \/ \E h \in GateHeaders, sub \in Callers :
           Protected(h, "logout", sub, Logout(sub))
    \/ Tick /\ authorization' = NoHeader

SpecGate == InitGate /\ [][NextGate]_vars

ProtectedOps ==
    {"create", "getOne", "update", "delete", "list", "generate", "insightList",
     "dashboard", "performance", "me", "updateProfile", "logout"}

\* C11: on every protected route, a request without a bearer token is
\* answered 401, a request whose token is malformed, expired or signed with
\* another key is answered with the one 403 envelope, in both cases no handler
\* runs and every collection stays as it was; a handler runs only under a
\* token that is well-formed, signed with the secret and not expired, and
\* then for that token's subject.
C11_GateTwoOutcomes ==
    [][request'.op # "none" =>
          LET h == authorization'
              bearer == h.present /\ Len(h.parts) >= 2 /\ h.parts[2] # EmptyString
              token == h.parts[2]
              good == /\ token.kind = "jwt"
                      /\ token.sig = JwtSecret
                      /\ token.exp > now
              stores == <<users, entities, insights, nextId, now, tokens, procs>>
          IN  /\ request'.op \in ProtectedOps
              /\ IF ~bearer
                 THEN /\ response' = ErrorResponse(401, <<"Access token required">>)
                      /\ "sub" \notin DOMAIN request'
                      /\ stores' = stores
                 ELSE IF ~good
                 THEN /\ response' = ErrorResponse(403, <<"Invalid or expired token">>)
                      /\ "sub" \notin DOMAIN request'
                      /\ stores' = stores
                 ELSE /\ "sub" \in DOMAIN request'
                      /\ request'.sub = token.claims.sub]_vars

\* a token that verified when the behaviour began is refused once it expired,
\* with a stored entity its subject could otherwise have read
C11_Witness ==
    /\ request.op = "getOne"
    /\ authorization.present
    /\ Len(authorization.parts) = 2
    /\ authorization.parts[2].kind = "jwt"
    /\ authorization.parts[2].sig = JwtSecret
    /\ authorization.parts[2].exp > StartHour
    /\ response.status = 403
    /\ entities # {}

(***************************************************************************)
(* Specification SpecSeeded: the list and analytics endpoints over a       *)
(* collection stored beforehand, of up to MaxSeeded entities of one owner  *)
(* and MaxOthers of another, created twelve days apart back from the start *)
(* and with metrics as whatever maintains them has left them               *)
(***************************************************************************)
SeedOwner == SubPool[1]
OtherOwner == SubPool[2]
SeedCreatedAt(i) == StartHour - (i * 12 * 24)

\* the i-th most recent entity of SeedOwner
SeedEntity(i) ==
    Merge(NewEntity([title |-> "t1", category |-> IF i % 3 = 0 THEN "c2" ELSE "c1"],
                    SeedOwner, SeedId(i), SeedCreatedAt(i)),
          [status |-> IF i % 2 = 0 THEN "inactive" ELSE "active",
           metrics |-> [views |-> (7 * i) % 19, engagement |-> (3 * i) % 19, score |-> 0]])

\* the entities of OtherOwner: the first two created on the day before the
\* start, at 11:00 and at 22:00 UTC, the next ones eleven hours apart after
OtherCreatedAt(j) == (StartHour - 36) + (11 * j)

OtherEntity(j) ==
    Merge(NewEntity([title |-> "t2", category |-> "c1"], OtherOwner, OtherId(j),
                    OtherCreatedAt(j)),
          [metrics |-> [views |-> 5 + j, engagement |-> j, score |-> 0]])

Seeded(n, m) == {SeedEntity(i) : i \in 1..n} \cup {OtherEntity(j) : j \in 1..m}

SeededListQueries ==
    { [k \in {} |-> JStr("")],
      [page |-> JStr("2"), limit |-> JStr("10")],
      [page |-> JStr("2"), limit |-> JStr("5"), sortBy |-> JStr("views")],
      [category |-> JStr("c1"), status |-> JStr("active"), page |-> JStr("2"),
       limit |-> JStr("3")],
      [status |-> JStr("inactive"), sortBy |-> JStr("engagement")],
      [page |-> JStr("0"), limit |-> JStr("0")],
      [page |-> JStr("-1")] }

SeededPerformanceQueries ==
    { [startDate |-> DateParam(SeedCreatedAt(3)), endDate |-> DateParam(SeedCreatedAt(1))],
      [startDate |-> DateParam(SeedCreatedAt(6) + 1), endDate |-> DateParam(StartHour),
       period |-> "monthly"],
      [startDate |-> DateParam(SeedCreatedAt(9)), endDate |-> DateParam(SeedCreatedAt(2) - 1),
       period |-> "weekly"],
      [endDate |-> DateParam(StartHour)],
      [startDate |-> DateParam(SeedCreatedAt(3))],
      [startDate |-> InvalidDate, endDate |-> DateParam(StartHour)],
      [startDate |-> DateParam(SeedCreatedAt(3)), endDate |-> InvalidDate],
      [startDate |-> DateParam(SeedCreatedAt(2)), endDate |-> DateParam(StartHour),
       period |-> "daily"],
      [startDate |-> DateParam(SeedCreatedAt(5)), endDate |-> DateParam(StartHour),
       period |-> "weekly"],
      [startDate |-> DateParam(SeedCreatedAt(8)), endDate |-> DateParam(StartHour),
       period |-> "monthly"],
      [startDate |-> DateParam(SeedCreatedAt(2)), endDate |-> DateParam(StartHour),
       period |-> "yearly"] }

\* the offsets of the server's time zone from UTC, in hours: TZ unset, UTC+2
\* and UTC-5
SeededTzOffsets == {0, 2, 0 - 5}

InitSeeded ==
    /\ users = {}
    /\ \E n \in 0..MaxSeeded, m \in 0..MaxOthers : entities = Seeded(n, m)
    /\ insights = {}
    /\ nextId = 1
    /\ now = StartHour
    /\ tz \in SeededTzOffsets
    /\ procs = [s \in Slots |-> [pc |-> "idle"]]
    /\ tokens = {}
    /\ secrets = {}
    /\ request = NoRequest
    /\ response = NoResponse
    /\ authorization = NoHeader

NextSeeded ==
    \/ \E sub \in Callers, q \in SeededListQueries : List(sub, q) /\ Admitted
    \/ \E sub \in Callers : Dashboard(sub) /\ Admitted
    \/ \E sub \in Callers, q \in SeededPerformanceQueries : Performance(sub, q) /\ Admitted
    \/ Tick /\ Admitted

SpecSeeded == InitSeeded /\ [][NextSeeded]_vars

(***************************************************************************)
(* Properties of the entity life cycle, under Spec                         *)
(***************************************************************************)
\* C12: an entity enters the collection only by a create, owned by the
\* subject of the create's credential; a create whose body carries userId is
\* answered 400 and stores nothing; and no step changes the userId of a
\* stored entity.
C12_OwnerFixed ==
    [][/\ \A f \in entities' :
              (\A e \in entities : e._id # f._id) =>
                  /\ request'.op = "create"
                  /\ f.userId = request'.sub
       /\ \A e \in entities, f \in entities' :
              e._id = f._id => f.userId = e.userId
       /\ (request'.op = "create" /\ "userId" \in DOMAIN request'.body) =>
              /\ response'.status = 400
              /\ entities' = entities]_vars

\* a create that names another subject as owner was refused, and an update
\* that does so would meet a stored entity
C12_Witness ==
    /\ request.op = "create"
    /\ "userId" \in DOMAIN request.body
    /\ request.body.userId.v # request.sub
    /\ response.status = 400
    /\ \E e \in entities : e.userId = request.sub

\* C13: a GET /:id that directly follows the create that returned the id,
\* under the same credential, is answered 200 with the title and category of
\* the create's body, its tags (none when it had none), its priority or
\* "medium" when it had none, status "active" and all three metrics 0.
C13_CreateThenGet ==
    [][(/\ request.op = "create"
        /\ response.status = 201
        /\ request'.op = "getOne"
        /\ request'.sub = request.sub
        /\ request'.id = response.body.data._id) =>
           LET body == request.body
               got == response'.body.data
           IN  /\ response'.status = 200
               /\ got.title = body.title.v
               /\ got.category = body.category.v
               /\ got.tags = IF "tags" \in DOMAIN body
                             THEN [i \in 1..Len(body.tags.v) |-> body.tags.v[i].v]
                             ELSE <<>>
               /\ got.priority = IF "priority" \in DOMAIN body
                                 THEN body.priority.v ELSE "medium"
               /\ got.status = "active"
               /\ got.metrics = [views |-> 0, engagement |-> 0, score |-> 0]]_vars

\* an entity created with a priority and tags of its own was fetched
C13_Witness ==
    /\ request.op = "getOne"
    /\ response.status = 200
    /\ response.body.data.priority = "high"
    /\ response.body.data.tags = <<"x">>
    /\ response.body.data.updatedAt = response.body.data.createdAt

\* C14: an update whose body has a key outside title, description, status,
\* priority and tags, or a status or priority outside its enumeration, is
\* answered 400 and leaves the collection as it was; an update answered 200
\* replaces one entity by a copy that differs from it only in the keys of the
\* body, set to the body's values, and in updatedAt, so that category,
\* metrics, userId and createdAt are as before.
C14_UpdateFrame ==
    [][request'.op = "update" =>
          LET body == request'.body
              bad == \/ DOMAIN body \ {"title", "description", "status", "priority", "tags"} # {}
                     \/ /\ "status" \in DOMAIN body
                        /\ body.status.v \notin {"active", "inactive"}
                     \/ /\ "priority" \in DOMAIN body
                        /\ body.priority.v \notin {"low", "medium", "high"}
              plain(k) == IF body[k].t = "array"
                          THEN [i \in 1..Len(body[k].v) |-> body[k].v[i].v]
                          ELSE body[k].v
          IN  /\ bad => (response'.status = 400 /\ entities' = entities)
              /\ response'.status = 200 =>
                    \E e \in entities, f \in entities' :
                        /\ e._id = request'.id
                        /\ f._id = e._id
                        /\ entities' = (entities \ {e}) \cup {f}
                        /\ response'.body.data = f
                        /\ DOMAIN f = DOMAIN e \cup DOMAIN body
                        /\ \A k \in DOMAIN body : f[k] = plain(k)
                        /\ \A k \in DOMAIN e \ (DOMAIN body \cup {"updatedAt"}) : f[k] = e[k]
                        /\ f.updatedAt = now
                        /\ f.category = e.category
                        /\ f.metrics = e.metrics
                        /\ f.userId = e.userId
                        /\ f.createdAt = e.createdAt]_vars

\* an update of title and tags was accepted on an entity of category "c1"
C14_Witness ==
    /\ request.op = "update"
    /\ response.status = 200
    /\ DOMAIN request.body = {"title", "tags"}
    /\ response.body.data.title = "t2"
    /\ response.body.data.category = "c1"
    /\ response.body.data \in entities

(***************************************************************************)
(* Properties of deletion, under SpecReads                                 *)
(***************************************************************************)
\* the ObjectIds the driver has generated that no stored entity has: those of
\* the deleted entities (and of the insights)
Gone == {IdPool[i] : i \in 1..(nextId - 1)} \ {e._id : e \in entities}

\* what the step did when it answered 200 to a DELETE: removed the one entity
\* with the request's id and subject, and nothing else
DeleteRemovesOne ==
    (request'.op = "delete" /\ response'.status = 200) =>
        \E e \in entities :
            /\ e._id = request'.id
            /\ e.userId = request'.sub
            /\ entities' = entities \ {e}

\* no entity comes back under an id that is gone, and no read returns or
\* counts one
GoneStaysGone ==
    /\ \A f \in entities' : f._id \notin Gone
    /\ (request'.op = "list" /\ response'.status = 200) =>
           \A i \in 1..Len(response'.body.data.entities) :
               response'.body.data.entities[i]._id \notin Gone
    /\ (request'.op = "dashboard" /\ response'.status = 200) =>
           response'.body.data.totalEntities =
               Cardinality({e \in entities : e.userId = request'.sub /\ e._id \notin Gone})
    /\ (request'.op = "performance" /\ response'.status = 200) =>
           SeqSum(response'.body.data, "entities") <=
               Cardinality({e \in entities : e.userId = request'.sub /\ e._id \notin Gone})

\* C15 as stated: a delete answered 200 removes exactly the entity it names;
\* from then on every GET, PUT and DELETE of that id, by any subject, is
\* answered 404 and changes nothing, and the entity is in no list or
\* aggregation.
C15_DeletedAlways404 ==
    [][/\ DeleteRemovesOne
       /\ GoneStaysGone
       /\ (request'.op \in {"getOne", "update", "delete"} /\ request'.id \in Gone) =>
              /\ response' = EntityNotFound
              /\ entities' = entities]_vars

\* C15 amended: as stated, except that a PUT of the id whose body fails the
\* update schema is answered 400, not 404; no such request is answered 200.
C15_Deleted404Or400 ==
    [][/\ DeleteRemovesOne
       /\ GoneStaysGone
       /\ (request'.op \in {"getOne", "update", "delete"} /\ request'.id \in Gone) =>
              /\ IF /\ request'.op = "update"
                    /\ JoiError(updateSchema, request'.body) # <<>>
                 THEN response'.status = 400
                 ELSE response' = EntityNotFound
              /\ entities' = entities]_vars

\* the owner's second delete of an entity was answered 404 while the other
\* entity of the same owner is still stored
C15_Witness ==
    /\ request.op = "delete"
    /\ request.id \in Gone
    /\ response = EntityNotFound
    /\ insights = {}
    /\ \E e \in entities : e.userId = request.sub

(***************************************************************************)
(* Properties of the list and analytics endpoints, under SpecSeeded        *)
(***************************************************************************)
\* the place of an entity among a set of entities, most recent first
Recency(e, S) == Cardinality({x \in S : x.createdAt > e.createdAt}) + 1

\* the step answered GET /?page=2&limit=10 for a subject that owns 15 entities
Page2Of15 ==
    /\ request.op = "list"
    /\ request.query = [page |-> JStr("2"), limit |-> JStr("10")]
    /\ Cardinality(Owned(request.sub)) = 15

\* C16 as stated: page=2, limit=10 over 15 owned entities returns the 6th to
\* 10th most recent of them, and total 15.
C16_Page2IsSixthToTenth ==
    Page2Of15 =>
        LET data == response.body.data
        IN  /\ response.status = 200
            /\ data.pagination.total = 15
            /\ Len(data.entities) = 5
            /\ \A i \in 1..Len(data.entities) :
                   /\ data.entities[i] \in Owned(request.sub)
                   /\ Recency(data.entities[i], Owned(request.sub)) = 5 + i

\* C16 amended: page=2, limit=10 over 15 owned entities returns the 11th to
\* 15th most recent of them, five records, and total 15.
C16_Page2IsEleventhToFifteenth ==
    Page2Of15 =>
        LET data == response.body.data
        IN  /\ response.status = 200
            /\ data.pagination.total = 15
            /\ Len(data.entities) = 5
            /\ \A i \in 1..Len(data.entities) :
                   /\ data.entities[i] \in Owned(request.sub)
                   /\ Recency(data.entities[i], Owned(request.sub)) = 10 + i

\* the second page of ten was answered for an owner of 15 entities while
\* another subject has entities too
C16_Witness ==
    /\ Page2Of15
    /\ response.status = 200
    /\ \E e \in entities : e.userId # request.sub

\* the caller's entities that pass the category and status of the query
Filtered(sub, q) ==
    {e \in Owned(sub) :
        \A k \in {"category", "status"} : (k \in DOMAIN q /\ q[k] # JStr("")) => e[k] = q[k].v}

\* the answer is the slice of the filtered entities at the positions
\* (page - 1) * limit + 1 .. page * limit of a descending order on the sort
\* key, with the count of the filtered entities as total
ListSliceOk ==
    LET q == request.query
        data == response.body.data
        page == data.pagination.page
        limit == data.pagination.limit
        all == Filtered(request.sub, q)
        key(e) == IF "sortBy" \in DOMAIN q /\ q.sortBy = JStr("views") THEN e.metrics.views
                  ELSE IF "sortBy" \in DOMAIN q /\ q.sortBy = JStr("engagement")
                       THEN e.metrics.engagement
                  ELSE e.createdAt
        first == (page - 1) * limit + 1
        last == IF page * limit < Cardinality(all) THEN page * limit ELSE Cardinality(all)
        got == data.entities
    IN  /\ data.pagination.total = Cardinality(all)
        /\ Len(got) = IF last < first THEN 0 ELSE last - first + 1
        /\ \A i \in 1..Len(got) :
               /\ got[i] \in all
               /\ Cardinality({x \in all : key(x) > key(got[i])}) <= first + i - 2
               /\ Cardinality({x \in all : key(x) >= key(got[i])}) >= first + i - 1
        /\ \A i, j \in 1..Len(got) : i # j => got[i] # got[j]

\* C17: every list request is answered with an effective page of at least 1
\* (1 by default) and an effective limit (10 by default), and with the slice
\* of the caller's filtered entities at that page in descending order of the
\* sort key, and their count as total.
C17_ListSlice ==
    request.op = "list" =>
        /\ response.status = 200
        /\ response.body.data.pagination.page >= 1
        /\ ("page" \notin DOMAIN request.query) => response.body.data.pagination.page = 1
        /\ ("limit" \notin DOMAIN request.query) => response.body.data.pagination.limit = 10
        /\ ListSliceOk

\* the tenths of a mean, rounded to the nearest, halves up
IsRoundedTenths(t, sum, n) ==
    /\ 2 * t * n <= 20 * sum + n
    /\ 20 * sum + n < 2 * t * n + 2 * n

\* C18: the dashboard of a subject reports the count of its entities, the
\* count of the active ones, the sum of their views and the mean of their
\* engagement rounded to one decimal; with no entities every figure is 0.
C18_DashboardFigures ==
    request.op = "dashboard" =>
        LET data == response.body.data
            es == Owned(request.sub)
            n == Cardinality(es)
        IN  /\ response.status = 200
            /\ data.totalEntities = n
            /\ data.activeEntities = Cardinality({e \in es : e.status = "active"})
            /\ data.totalViews = SumOf(es, "views")
            /\ IF n = 0
               THEN /\ data.avgEngagementTenths = 0
                    /\ data.totalViews = 0
                    /\ data.activeEntities = 0
                    /\ data.trend = 0
               ELSE IsRoundedTenths(data.avgEngagementTenths, SumOf(es, "engagement"), n)

\* a dashboard whose mean engagement had to be rounded up
C18_Witness ==
    /\ request.op = "dashboard"
    /\ response.status = 200
    /\ LET es == Owned(request.sub)
           n == Cardinality(es)
       IN  /\ n > 0
           /\ 2 * ((10 * SumOf(es, "engagement")) % n) > n
           /\ response.body.data.activeEntities < n

\* the calendar month <<year, month>> of an instant, in the server's time
MonthOf(t) == SubSeq(CivilOfDay((t + tz) \div 24), 1, 2)

\* the numbers of the subject's entities created in the month of now and in
\* the month before it
CreatedThisMonth(sub) == Cardinality({e \in Owned(sub) : MonthOf(e.createdAt) = MonthOf(now)})
CreatedLastMonth(sub) ==
    LET ym == MonthOf(now)
        before == IF ym[2] = 1 THEN <<ym[1] - 1, 12>> ELSE <<ym[1], ym[2] - 1>>
    IN  Cardinality({e \in Owned(sub) : MonthOf(e.createdAt) = before})

\* C19: the dashboard's trend is 100 * (c - p) / p rounded to the nearest
\* integer, c and p the numbers of the subject's entities created in the
\* current calendar month and in the one before (December of the year before
\* in January), and 0 when p is 0, whatever c is.
C19_Trend ==
    request.op = "dashboard" =>
        LET c == CreatedThisMonth(request.sub)
            p == CreatedLastMonth(request.sub)
            trend == response.body.data.trend
        IN  IF p = 0 THEN trend = 0
            ELSE /\ 2 * trend * p <= 200 * (c - p) + p
                 /\ 200 * (c - p) + p < 2 * trend * p + 2 * p

\* a dashboard asked in January whose trend against December is no whole
\* number of percent
C19_Witness ==
    /\ request.op = "dashboard"
    /\ MonthOf(now)[2] = 1
    /\ CreatedLastMonth(request.sub) > 0
    /\ (100 * (CreatedThisMonth(request.sub) - CreatedLastMonth(request.sub)))
           % CreatedLastMonth(request.sub) # 0
    /\ response.body.data.trend < 0

\* C20: GET /performance is answered 400, with no data, when startDate or
\* endDate is missing or is no date; otherwise it is answered 200 and its
\* buckets count, and sum the views and engagement of, exactly the caller's
\* entities created from startDate to endDate, both included.
C20_PerformanceRange ==
    request.op = "performance" =>
        LET q == request.query
            bad == \/ "startDate" \notin DOMAIN q
                   \/ "endDate" \notin DOMAIN q
                   \/ q.startDate.nan
                   \/ q.endDate.nan
            within == {e \in Owned(request.sub) :
                          q.startDate.t <= e.createdAt /\ e.createdAt <= q.endDate.t}
        IN  IF bad
            THEN response = ErrorResponse(400, <<"Invalid date format">>)
            ELSE /\ response.status = 200
                 /\ SeqSum(response.body.data, "entities") = Cardinality(within)
                 /\ SeqSum(response.body.data, "views") = SumOf(within, "views")
                 /\ SeqSum(response.body.data, "engagement") = SumOf(within, "engagement")
                 /\ \A i \in 1..Len(response.body.data) : response.body.data[i].entities >= 1

\* a range that begins and ends on the creation instants of two of the
\* caller's entities and leaves others of them out
C20_Witness ==
    /\ request.op = "performance"
    /\ response.status = 200
    /\ \E a, b, c \in Owned(request.sub) :
           /\ a.createdAt = request.query.startDate.t
           /\ b.createdAt = request.query.endDate.t
           /\ a # b
           /\ c.createdAt < a.createdAt
    /\ SeqSum(response.body.data, "entities") = 3

(***************************************************************************)
(* Properties of the performance buckets, under SpecSeeded                 *)
(***************************************************************************)
\* the step answered GET /performance with the bucket list
PerformanceAnswered == request.op = "performance" /\ response.status = 200

\* the period the request asks for
PeriodAsked == IF "period" \in DOMAIN request.query THEN request.query.period ELSE "daily"

\* the caller's entities created within the requested range
WithinRange ==
    {e \in Owned(request.sub) :
        /\ request.query.startDate.t <= e.createdAt
        /\ e.createdAt <= request.query.endDate.t}

\* the UTC calendar date <<year, month, day>> of an instant
UtcDate(t) == CivilOfDay(t \div 24)

\* C21: with the daily period, which is also the period when none is given,
\* the caller's in-range entities created on one calendar day are in one
\* bucket keyed by that date: every such entity's date is the key of exactly
\* one bucket, and each bucket's entities field is the number of the in-range
\* entities of its date (at least one) and its views and engagement fields
\* are the sums of their metrics.
C21_DailyBuckets ==
    (PerformanceAnswered /\ PeriodAsked = "daily") =>
        LET data == response.body.data
        IN  /\ \A e \in WithinRange :
                   Cardinality({i \in 1..Len(data) : data[i].date = UtcDate(e.createdAt)}) = 1
            /\ \A i \in 1..Len(data) :
                   LET same == {e \in WithinRange : UtcDate(e.createdAt) = data[i].date}
                   IN  /\ same # {}
                       /\ data[i].entities = Cardinality(same)
                       /\ data[i].views = SumOf(same, "views")
                       /\ data[i].engagement = SumOf(same, "engagement")

\* a daily result with a bucket of two entities created at different hours of
\* one day
C21_Witness ==
    /\ PerformanceAnswered
    /\ PeriodAsked = "daily"
    /\ "period" \in DOMAIN request.query
    /\ \E i \in 1..Len(response.body.data), a, b \in WithinRange :
           /\ response.body.data[i].entities = 2
           /\ a.createdAt # b.createdAt
           /\ UtcDate(a.createdAt) = response.body.data[i].date
           /\ UtcDate(b.createdAt) = response.body.data[i].date
           /\ response.body.data[i].views = a.metrics.views + b.metrics.views

\* the day numbers the dates of the model fall in, and the day number of a date
DayNumbers == (DayOf(StartHour) - 240)..(DayOf(StartHour) + 10)
DayNumberOf(date) == CHOOSE k \in DayNumbers : CivilOfDay(k) = date

\* the date is one of DayNumbers and falls on a Sunday (day 0 was a Thursday)
IsSunday(date) ==
    /\ \E k \in DayNumbers : CivilOfDay(k) = date
    /\ (DayNumberOf(date) + 4) % 7 = 0

\* C22: with the weekly period every bucket is keyed by a Sunday, and every
\* in-range entity of the caller is under a key that is a Sunday on or before
\* its creation calendar date and at most 6 days before it, at every time of
\* day of the creation and under every offset of the server's time zone.
C22_WeeklySunday ==
    (PerformanceAnswered /\ PeriodAsked = "weekly") =>
        LET data == response.body.data
        IN  /\ \A i \in 1..Len(data) : IsSunday(data[i].date)
            /\ \A e \in WithinRange :
                   \E i \in 1..Len(data) :
                       /\ IsSunday(data[i].date)
                       /\ DayNumberOf(data[i].date) <= DayOf(e.createdAt)
                       /\ DayOf(e.createdAt) - DayNumberOf(data[i].date) <= 6

(***************************************************************************)
(* Specification SpecInsights: the insight routes with every request body  *)
(* and every outcome of the provider call, next to entity creation         *)
(***************************************************************************)
InsightsCreateBodies == {b \in ReadsCreateBodies : DOMAIN b = {"title", "category"}}

NextInsights ==
    \/ \E sub \in Callers, body \in InsightsCreateBodies : Create(sub, body) /\ Admitted
    \/ \E sub \in Callers, body \in GenerateBodies, outcome \in ProviderOutcomes :
           Generate(sub, body, outcome) /\ Admitted
    \/ \E sub \in Callers, q \in InsightQueries : InsightList(sub, q) /\ Admitted

SpecInsights == Init /\ [][NextInsights]_vars

\* C23: a generate request that passes validation stores exactly one new
\* insight (owner the caller, type generated, confidence 0.85, content the
\* provider's text, entityId as submitted) and is answered 200 if and only if
\* the provider call succeeded; when the provider call failed nothing is
\* stored and the answer is 500, with the key-invalid message when the
\* provider answered 401.
C23_PersistIffProviderOk ==
    [][(request'.op = "generate" /\ JoiError(generateSchema, request'.body) = <<>>) =>
          IF request'.provider.ok
          THEN /\ response'.status = 200
               /\ \E d \in insights' \ insights :
                      /\ insights' = insights \cup {d}
                      /\ d.userId = request'.sub
                      /\ d.type = "generated"
                      /\ d.confidenceHundredths = 85
                      /\ d.content = request'.provider.content
                      /\ ("entityId" \in DOMAIN d) = ("entityId" \in DOMAIN request'.body)
                      /\ "entityId" \in DOMAIN d => d.entityId = request'.body.entityId.v
          ELSE /\ insights' = insights
               /\ response'.status = 500
               /\ ("response" \in DOMAIN request'.provider
                      /\ request'.provider.response.status = 401)
                      => response' = ErrorResponse(500, <<"OpenRouter API key invalid">>)]_vars

(***************************************************************************)
(* Specification SpecTokens: generateTokens applied to subjects and emails *)
(* under the values JWT_EXPIRY may have                                    *)
(***************************************************************************)
\* unset, the README's 7d, and other spans in the formats jwt.sign documents
JwtExpiryValues ==
    { EnvUnset, EnvText(7, "d"), EnvText(1, "h"), EnvText(3600, "s"), EnvText(90, "m"),
      EnvText(DefaultExpirySeconds, "") }

IssueEmails == {"a@x.io", "b@x.io"}

\* one call of generateTokens(userId, email)
Issue(expiry, userId, email) ==
    /\ tokens' = tokens \cup {userId}
    /\ request' = [op |-> "issue", env |-> [JWT_EXPIRY |-> expiry], sub |-> userId,
                   email |-> email]
    /\ response' = DataResponse(200, generateTokensUnder(expiry, userId, email))
    /\ UNCHANGED <<users, entities, insights, nextId, now, tz, procs, secrets>>

NextTokens ==
    \E expiry \in JwtExpiryValues, i \in 1..Len(SubPool), email \in IssueEmails :
        Issue(expiry, SubPool[i], email) /\ Admitted

SpecTokens == Init /\ [][NextTokens]_vars

\* C24: the expiresIn that generateTokens returns is the lifetime in seconds
\* of the token it signs, and is 604800 when JWT_EXPIRY is not set.
C24_ExpiresInIsLifetime ==
    request.op = "issue" =>
        /\ response.body.data.expiresIn = response.body.data.accessToken.lifetime
        /\ ~request.env.JWT_EXPIRY.set => response.body.data.expiresIn = 604800

(***************************************************************************)
(* Specification SpecRace: updates and deletes of stored entities whose    *)
(* handlers are suspended at the await of their store operation, so that   *)
(* the store operations of requests in flight interleave in every order    *)
(***************************************************************************)
\* the entity the requests of this specification are for, owned by SeedOwner
RaceIds == {SeedId(1)}

RaceUpdateBodies ==
    { [title |-> JStr("t2")],
      [status |-> JStr("inactive")],
      [title |-> JStr("t3"), status |-> JStr("inactive")],
      [category |-> JStr("c2")] }

\* PUT /api/entities/:id up to await Entity.findOneAndUpdate; arrival notes
\* the documents the request would have matched when it arrived
UpdateBegin(slot, sub, id, body) ==
    LET req == [op |-> "update", sub |-> sub, id |-> id, body |-> body,
                arrival |-> Find(entities, UpdateFilter(id, sub))]
        error == JoiError(updateSchema, body)
    IN  /\ procs[slot] = Idle
        /\ UNCHANGED <<users, entities, insights, nextId, now, tz, tokens, secrets>>
        /\ IF error # <<>>
           THEN /\ Answer(req, ErrorResponse(400, error))
                /\ UNCHANGED procs
           ELSE /\ procs' = [procs EXCEPT ![slot] =
                       [pc |-> "updateStore", req |-> req,
                        update |-> UpdateDocument(JoiValue(body), now)]]
                /\ Silent

\* PUT /api/entities/:id from await Entity.findOneAndUpdate on
UpdateEnd(slot) ==
    /\ procs[slot].pc = "updateStore"
    /\ procs' = [procs EXCEPT ![slot] = Idle]
    /\ UNCHANGED <<users, insights, nextId, now, tz, tokens, secrets>>
    /\ UpdateStore(procs[slot].req, procs[slot].update)

\* DELETE /api/entities/:id up to await Entity.findOneAndDelete
DeleteBegin(slot, sub, id) ==
    /\ procs[slot] = Idle
    /\ procs' = [procs EXCEPT ![slot] =
           [pc |-> "deleteStore",
            req |-> [op |-> "delete", sub |-> sub, id |-> id,
                     arrival |-> Find(entities, DeleteFilter(id, sub))]]]
    /\ Silent
    /\ UNCHANGED <<users, entities, insights, nextId, now, tz, tokens, secrets>>

\* DELETE /api/entities/:id from await Entity.findOneAndDelete on
DeleteEnd(slot) ==
    /\ procs[slot].pc = "deleteStore"
    /\ procs' = [procs EXCEPT ![slot] = Idle]
    /\ UNCHANGED <<users, insights, nextId, now, tz, tokens, secrets>>
    /\ DeleteStore(procs[slot].req)

InitRace ==
    /\ users = {}
    /\ entities = Seeded(1, 1)
    /\ insights = {}
    /\ nextId = 1
    /\ now = StartHour
    /\ tz \in TzOffsets
    /\ procs = [s \in Slots |-> Idle]
    /\ tokens = {}
    /\ secrets = {}
    /\ request = NoRequest
    /\ response = NoResponse
    /\ authorization = NoHeader

NextRace ==
    \/ \E slot \in Slots, sub \in Callers, id \in RaceIds, body \in RaceUpdateBodies :
           UpdateBegin(slot, sub, id, body) /\ Admitted
    \/ \E slot \in Slots : UpdateEnd(slot) /\ Admitted
    \/ \E slot \in Slots, sub \in Callers, id \in RaceIds :
           DeleteBegin(slot, sub, id) /\ Admitted
    \/ \E slot \in Slots : DeleteEnd(slot) /\ Admitted
    \/ Tick /\ Admitted

SpecRace == InitRace /\ [][NextRace]_vars

\* the store operation of the update in flight in a slot is applied in this step
UpdateApplied(slot) == procs[slot].pc = "updateStore" /\ procs'[slot] = Idle

\* the entity an update in flight is for, as stored now (none or one)
Target(slot) ==
    {e \in entities : e._id = procs[slot].req.id /\ e.userId = procs[slot].req.sub}

\* C25: whenever the store applies an update of an entity by its owner, with
\* whatever other updates of that entity in flight or applied since the
\* request arrived, the update is answered 200 with the stored document, and
\* in that document every field the update sets has the update's value and
\* every other field has the value stored just before; so the value a field
\* ends with is that of the last applied update that set it, no field has a
\* value that neither an update nor the prior state supplied, and no update
\* is turned down for a version.
C25_LastWriteWins ==
    [][\A slot \in Slots :
          (UpdateApplied(slot) /\ Target(slot) # {}) =>
              LET old == CHOOSE e \in Target(slot) : TRUE
                  value == JoiValue(procs[slot].req.body)
              IN  /\ response'.status = 200
                  /\ request' = procs[slot].req
                  /\ \E new \in entities' :
                         /\ entities' = (entities \ {old}) \cup {new}
                         /\ response'.body.data = new
                         /\ DOMAIN new = DOMAIN old \cup DOMAIN value
                         /\ \A k \in DOMAIN new :
                                new[k] = IF k \in DOMAIN value THEN value[k]
                                         ELSE IF k = "updatedAt"
                                         THEN procs[slot].update.updatedAt
                                         ELSE old[k]]_vars

\* an update answered 200 whose entity another update, applied while this one
\* was in flight, gave a title this one does not set, and which set the
\* status itself
C25_Witness ==
    /\ request.op = "update"
    /\ response.status = 200
    /\ DOMAIN request.body = {"status"}
    /\ \E was \in request.arrival :
           /\ was.title # response.body.data.title
           /\ was.status # response.body.data.status
    /\ response.body.data \in entities

\* C28: an update whose entity is gone when the store applies it, the delete
\* having removed it, is answered 404 and writes nothing, and no step brings
\* a removed entity back: an id absent from the collection stays absent.
C28_NoRecreate ==
    [][/\ \A slot \in Slots :
             (UpdateApplied(slot) /\ Target(slot) = {} /\ IsObjectId(procs[slot].req.id)) =>
                 /\ response' = EntityNotFound
                 /\ entities' = entities
       /\ \A id \in RaceIds :
             (\A e \in entities : e._id # id) => (\A e \in entities' : e._id # id)]_vars

\* an update answered 404 for an entity that was there when the request
\* arrived: the delete removed it while the update was in flight
C28_Witness ==
    /\ request.op = "update"
    /\ response = EntityNotFound
    /\ request.arrival # {}
    /\ \A e \in entities : e._id # request.id

\* the date <<year, month>> or <<year, month, day>> a is earlier than b
Earlier(a, b) ==
    \/ a[1] < b[1]
    \/ a[1] = b[1] /\ a[2] < b[2]
    \/ Len(a) = 3 /\ Len(b) = 3 /\ a[1] = b[1] /\ a[2] = b[2] /\ a[3] < b[3]

\* C26: for the daily, weekly and monthly periods the buckets are listed in
\* strictly ascending order of their date keys: each bucket's key is earlier
\* than the key of the bucket after it, so that no key appears twice.
C26_BucketsAscending ==
    (PerformanceAnswered /\ PeriodAsked \in {"daily", "weekly", "monthly"}) =>
        LET data == response.body.data
        IN  /\ \A i \in 1..(Len(data) - 1) : Earlier(data[i].date, data[i + 1].date)
            /\ \A i, j \in 1..Len(data) : data[i].date = data[j].date => i = j

\* a weekly result of at least three buckets that begins in one year and
\* ends in the next
C26_Witness ==
    /\ PerformanceAnswered
    /\ PeriodAsked = "weekly"
    /\ Len(response.body.data) >= 3
    /\ response.body.data[1].date[1] < response.body.data[Len(response.body.data)].date[1]

\* C27: in every performance result each in-range entity of the caller is
\* counted in exactly one bucket: a bucket counts the in-range entities that
\* have its key and there is at least one of them, the entities fields add up
\* to the number of in-range entities, and the views and engagement fields
\* add up to the totals of those metrics over the in-range entities.
C27_CountedOnce ==
    PerformanceAnswered =>
        LET data == response.body.data
            keyed(i) == {e \in WithinRange :
                            DateKey(e.createdAt, PeriodAsked, tz) = data[i].date}
        IN  /\ \A i \in 1..Len(data) :
                   /\ data[i].entities >= 1
                   /\ data[i].entities = Cardinality(keyed(i))
            /\ \A e \in WithinRange :
                   Cardinality({i \in 1..Len(data) : e \in keyed(i)}) = 1
            /\ SeqSum(data, "entities") = Cardinality(WithinRange)
            /\ SeqSum(data, "views") = SumOf(WithinRange, "views")
            /\ SeqSum(data, "engagement") = SumOf(WithinRange, "engagement")

\* a monthly result of several buckets, one of them of two entities or more,
\* with entities of the caller out of the range and entities of another
\* owner within it
C27_Witness ==
    /\ PerformanceAnswered
    /\ PeriodAsked = "monthly"
    /\ Len(response.body.data) >= 2
    /\ \E i \in 1..Len(response.body.data) : response.body.data[i].entities >= 2
    /\ Owned(request.sub) \ WithinRange # {}
    /\ \E e \in entities :
           /\ e.userId # request.sub
           /\ request.query.startDate.t <= e.createdAt
           /\ e.createdAt <= request.query.endDate.t

\* C29: every bucket of a performance result has a defined date key in the
\* format of a period, a calendar date <<year, month, day>> or a year-month
\* <<year, month>>, whatever the period the request asks for.
C29_DefinedKeys ==
    PerformanceAnswered =>
        \A i \in 1..Len(response.body.data) :
            /\ response.body.data[i].date # <<>>
            /\ Len(response.body.data[i].date) \in {2, 3}

\* C30: once an account has a googleId no step changes or clears it: the
\* account is still stored after the step, with the same googleId.
C30_SubjectIdNeverChanges ==
    [][\A u \in users :
          "googleId" \in DOMAIN u =>
              \E v \in users' :
                  /\ v._id = u._id
                  /\ "googleId" \in DOMAIN v
                  /\ v.googleId = u.googleId]_vars

====
